---- MODULE Spec2Model ----
(***************************************************************************)
(* Panel transformation and variant-assembly engine of dfm_pipeline.       *)
(*                                                                         *)
(* A panel (pandas DataFrame) is a record                                  *)
(*   [name    : the index name ("" when the index is unnamed),              *)
(*    index   : sequence of timestamps,                                    *)
(*    columns : sequence of series names,                                  *)
(*    data    : function series name -> sequence of cells]                 *)
(* A timestamp is an integer: month * SlotsPerMonth + slot, slot 0 being   *)
(* the first day of the month (the "MS" anchor of pandas) and every other  *)
(* slot a later day of the same month.                                     *)
(* A cell is a record [k, v, d]: k = "num" is the number v/d (a fraction   *)
(* in lowest terms, d > 0), k = "nan" a missing value, k = "inf" the       *)
(* infinity of sign v, k = "str" a token that is not a number.             *)
(* Sequences are 1-based; the code's 0-based positions are kept and cells  *)
(* are read with At(seq, i).                                               *)
(***************************************************************************)
EXTENDS Integers, Sequences, FiniteSets, TLC

VARIABLES pc, df, args, ret

vars == <<pc, df, args, ret>>

(* ------------------------------ bounds -------------------------------- *)

\* slots of one month: slot 0 is the month start
SlotsPerMonth == 2
\* rows of the exhaustively enumerated panels handed to pick_training_window
MaxWinRows == 5
\* rows of the exhaustively enumerated panels handed to build_variant
MaxVarRows == 4

(* --------------------------- cells and helpers ------------------------ *)

NaN == [k |-> "nan", v |-> 0, d |-> 1]

Num(n) == [k |-> "num", v |-> n, d |-> 1]

PInf == [k |-> "inf", v |-> 1, d |-> 1]

NInf == [k |-> "inf", v |-> -1, d |-> 1]

\* a token of the raw table that does not parse as a number
Junk == [k |-> "str", v |-> 0, d |-> 1]

None == [status |-> "none"]

\* pandas isna(): NaN is missing, +-inf is not
isna(c) == c.k = "nan"

notna(c) == ~isna(c)

At(s, i) == s[i + 1]

Max2(a, b) == IF a >= b THEN a ELSE b

Min2(a, b) == IF a <= b THEN a ELSE b

SeqToSet(q) == {q[j] : j \in 1 .. Len(q)}

\* positions 0..n-1 of a sequence
Pos(s) == 0 .. (Len(s) - 1)

\* s.iloc[a:b+1]
Slice(s, a, b) == [i \in 1 .. Max2(0, b - a + 1) |-> s[a + i]]

\* timestamp of the first day of month m
MonthStart(m) == m * SlotsPerMonth

\* a contiguous month-start index of n rows starting at month m0
MonthlyIndex(m0, n) == [i \in 1 .. n |-> MonthStart(m0 + i - 1)]

(* ------------------------ rational comparisons ------------------------ *)

\* a fraction is <<numerator, denominator>> with denominator > 0
FracGE(a, b) == a[1] * b[2] >= b[1] * a[2]

FracGT(a, b) == a[1] * b[2] > b[1] * a[2]

(* --------------------------- panel accessors -------------------------- *)

NRows(p) == Len(p.index)

NCols(p) == Len(p.columns)

ColSet(p) == {p.columns[j] : j \in 1 .. Len(p.columns)}

\* DataFrame.empty: any axis of length 0
IsEmpty(p) == NRows(p) = 0 \/ NCols(p) = 0

\* mutant of RowObserved: only the first column of the panel is looked at
RowObserved_FirstColumnOnly(p, i) ==
    IF notna(At(p.data[p.columns[1]], i)) THEN NCols(p) ELSE 0

\* number of non-missing cells of row i (0-based)
RowObserved(p, i) == Cardinality({c \in ColSet(p) : notna(At(p.data[c], i))})

\* anchored.notna().mean(axis=1): fraction of non-missing series of month i
Coverage(p, i) == <<RowObserved(p, i), NCols(p)>>

\* coverage.rolling(min_run, min_periods=min_run).min() >= cov_thresh at row i:
\* the window is the min_run rows ENDING at i; fewer rows give NaN (False)
RollOk(p, i, cov_thresh, min_run) ==
    /\ i + 1 >= min_run
    /\ \A j \in (i - min_run + 1) .. i : FracGE(Coverage(p, j), cov_thresh)

\* idx.get_indexer([t], method="nearest")[0] on a sorted unique index
GetIndexerNearest(idx, t) ==
    LET dist(i) == IF At(idx, i) >= t THEN At(idx, i) - t ELSE t - At(idx, i)
    IN  CHOOSE i \in Pos(idx) :
            \A j \in Pos(idx) : dist(i) < dist(j) \/ (dist(i) = dist(j) /\ i <= j)

(* ------------------------ pick_training_window ------------------------ *)

MonthsPerYear == 12

\* mutant of FirstOk: when no month meets the threshold the last row is taken
FirstOk_LastRowFallback(p, cov_thresh, min_run) ==
    LET idx     == p.index
        n       == Len(idx)
        rollSet == {i \in Pos(idx) : RollOk(p, i, cov_thresh, min_run)}
        okSet   == {i \in Pos(idx) : FracGE(Coverage(p, i), cov_thresh)}
        first(S) == CHOOSE i \in S : \A j \in S : i <= j
    IN  IF rollSet # {} THEN At(idx, first(rollSet))
        ELSE IF okSet # {} THEN At(idx, first(okSet))
        ELSE At(idx, Max2(0, n - 1))

\* the qualifying month first_ok
FirstOk(p, cov_thresh, min_run) ==
    LET idx     == p.index
        n       == Len(idx)
        rollSet == {i \in Pos(idx) : RollOk(p, i, cov_thresh, min_run)}
        okSet   == {i \in Pos(idx) : FracGE(Coverage(p, i), cov_thresh)}
        first(S) == CHOOSE i \in S : \A j \in S : i <= j
    IN  IF rollSet # {} THEN At(idx, first(rollSet))
        ELSE IF okSet # {} THEN At(idx, first(okSet))
        ELSE At(idx, Min2(min_run - 1, Max2(0, n - 1)))

\* mutant of EndIdx: no holdout is left after the window
EndIdx_IgnoreHoldout(n, holdout_months) == Max2(0, n - 1)

\* the window end before any shrinking: the last month minus the holdout
EndIdx(n, holdout_months) == Max2(0, n - holdout_months - 1)

\* mutant of EnsureNonEmpty: the step-4 window is returned as it is
EnsureNonEmpty_NoShrink(idx, start_idx, end_idx, start_min_idx, min_run) ==
    [shrunk      |-> FALSE,
     train_start |-> At(idx, start_idx),
     train_end   |-> At(idx, end_idx)]

\* mutant of EnsureNonEmpty: the shrunk window runs to the last row
EnsureNonEmpty_ToLastRow(idx, start_idx, end_idx, start_min_idx, min_run) ==
    IF At(idx, start_idx) > At(idx, end_idx)
    THEN [shrunk      |-> TRUE,
          train_start |-> At(idx, start_min_idx),
          train_end   |-> At(idx, Len(idx) - 1)]
    ELSE [shrunk      |-> FALSE,
          train_start |-> At(idx, start_idx),
          train_end   |-> At(idx, end_idx)]

\* "if train_start > train_end": anchor the window at the qualifying month and
\* extend it by min_run months, clipped to the last row
EnsureNonEmpty(idx, start_idx, end_idx, start_min_idx, min_run) ==
    IF At(idx, start_idx) > At(idx, end_idx)
    THEN [shrunk      |-> TRUE,
          train_start |-> At(idx, start_min_idx),
          train_end   |-> At(idx, Min2(Max2(start_min_idx + min_run - 1, start_min_idx),
                                       Len(idx) - 1))]
    ELSE [shrunk      |-> FALSE,
          train_start |-> At(idx, start_idx),
          train_end   |-> At(idx, end_idx)]

\* mutant of StartIdx: the window always starts at the qualifying month
StartIdx_AtQualifyingMonth(start_min_idx, end_idx, desired_len) == start_min_idx

\* start_idx = max(start_min_idx, end_idx - desired_len + 1)
StartIdx(start_min_idx, end_idx, desired_len) ==
    Max2(start_min_idx, end_idx - desired_len + 1)

pick_training_window(p, cov_thresh, train_years, holdout_months, min_run) ==
    IF IsEmpty(p) THEN [status |-> "ValueError"]
    ELSE
    LET idx           == p.index
        first_ok      == FirstOk(p, cov_thresh, min_run)
        n             == Len(idx)
        end_idx       == EndIdx(n, holdout_months)
        desired_len   == train_years * MonthsPerYear
        start_min_idx == GetIndexerNearest(idx, first_ok)
        start_idx     == StartIdx(start_min_idx, end_idx, desired_len)
        w             == EnsureNonEmpty(idx, start_idx, end_idx, start_min_idx, min_run)
    IN  [status      |-> "ok",
         first_ok    |-> first_ok,
         shrunk      |-> w.shrunk,
         train_start |-> w.train_start,
         train_end   |-> w.train_end]

(* ----------------------------- row selection -------------------------- *)

RECURSIVE SortedSeq(_)
\* the elements of a finite set of integers in ascending order
SortedSeq(S) ==
    IF S = {} THEN <<>>
    ELSE LET m == CHOOSE x \in S : \A y \in S : x <= y
         IN  <<m>> \o SortedSeq(S \ {m})

\* df.iloc[rows]: the rows at the given 0-based positions, in that order
TakeRows(p, rows) ==
    [name    |-> p.name,
     index   |-> [k \in 1 .. Len(rows) |-> At(p.index, rows[k])],
     columns |-> p.columns,
     data    |-> [c \in DOMAIN p.data |->
                    [k \in 1 .. Len(rows) |-> At(p.data[c], rows[k])]]]

\* df[cols]: the given columns, in that order
TakeCols(p, cols) ==
    [name    |-> p.name,
     index   |-> p.index,
     columns |-> cols,
     data    |-> [c \in {cols[j] : j \in 1 .. Len(cols)} |-> p.data[c]]]

(* --------------------------- column statistics ------------------------ *)

\* positions of the missing cells of a series
MissingPos(s) == {i \in Pos(s) : isna(At(s, i))}

ValidPos(s) == {i \in Pos(s) : notna(At(s, i))}

SetMin(S) == CHOOSE x \in S : \A y \in S : x <= y

SetMax(S) == CHOOSE x \in S : \A y \in S : x >= y

\* s.loc[start_ts:] on the index idx, then the count of initial NaN rows
leading_na_since(idx, s, start_ts) ==
    LET from == {i \in Pos(idx) : At(idx, i) >= start_ts}
    IN  Cardinality({i \in from :
            \A j \in from : j <= i => isna(At(s, j))})

\* length of the longest run of missing cells among the positions lo..hi
LongestNaRun(s, lo, hi) ==
    LET isRun(a, b) == \A j \in a .. b : isna(At(s, j))
        lens == {b - a + 1 : <<a, b>> \in
                    {w \in (lo .. hi) \X (lo .. hi) : w[1] <= w[2] /\ isRun(w[1], w[2])}}
    IN  IF lens = {} THEN 0 ELSE SetMax(lens)

\* mutant of interior_max_gap: leading and trailing missing rows count too
interior_max_gap_WholeSeries(s) ==
    IF ValidPos(s) = {} THEN Len(s)
    ELSE LongestNaRun(s, 0, Len(s) - 1)

\* (a.isna() != a.isna().shift()).cumsum(): the run number of row k of a
\* (1-based); the first row always starts a run, shift() giving NaN there
RunNumber(a, k) ==
    Cardinality({j \in 1 .. k : j = 1 \/ isna(a[j]) # isna(a[j - 1])})

\* a.isna().groupby(runs).sum().max(): the largest count of missing rows
\* within one run number
MaxGroupSum(a) ==
    SetMax({Cardinality({k \in 1 .. Len(a) : RunNumber(a, k) = g /\ isna(a[k])}) :
               g \in {RunNumber(a, k) : k \in 1 .. Len(a)}})

interior_max_gap(s) ==
    IF ValidPos(s) = {} THEN Len(s)
    ELSE MaxGroupSum(SubSeq(s, SetMin(ValidPos(s)) + 1, SetMax(ValidPos(s)) + 1))

(* ------------------------------ build_variant ------------------------- *)

DATE_COL_DEFAULT == "sasdate"

\* mutant of DropReason: the interior-gap rule is tested before the others
DropReason_GapFirst(miss_share, lead_na, interior, nobs_train, a) ==
    IF interior > a.interior_gap_max_months THEN "interior_gap>"
    ELSE IF FracGT(miss_share, a.miss_share_max) THEN "missing_share>"
    ELSE IF lead_na > a.lead_limit_months THEN "leading_na>"
    ELSE IF nobs_train < a.min_obs_train_months THEN "nobs_train<"
    ELSE ""

\* mutant of DropReason: a value equal to its limit violates the rule
DropReason_AtLimit(miss_share, lead_na, interior, nobs_train, a) ==
    IF FracGE(miss_share, a.miss_share_max) THEN "missing_share>"
    ELSE IF lead_na >= a.lead_limit_months THEN "leading_na>"
    ELSE IF interior >= a.interior_gap_max_months THEN "interior_gap>"
    ELSE IF nobs_train <= a.min_obs_train_months THEN "nobs_train<"
    ELSE ""

\* the first rule violated, in the order of the if/elif chain; "" for None
DropReason(miss_share, lead_na, interior, nobs_train, a) ==
    IF FracGT(miss_share, a.miss_share_max) THEN "missing_share>"
    ELSE IF lead_na > a.lead_limit_months THEN "leading_na>"
    ELSE IF interior > a.interior_gap_max_months THEN "interior_gap>"
    ELSE IF nobs_train < a.min_obs_train_months THEN "nobs_train<"
    ELSE ""

\* the per-column decision of the loop body
ColumnDecision(p, col, anchor_ts, train_start, train_end, a) ==
    LET s          == p.data[col]
        inTrain    == {i \in Pos(p.index) :
                          At(p.index, i) >= train_start /\ At(p.index, i) <= train_end}
        miss_share == <<Cardinality(MissingPos(s)), Len(s)>>
        lead_na    == leading_na_since(p.index, s, anchor_ts)
        interior   == interior_max_gap(s)
        nobs_train == Cardinality(inTrain \cap ValidPos(s))
    IN  [missing_share           |-> miss_share,
         leading_na_since_anchor |-> lead_na,
         interior_gap_months     |-> interior,
         nobs_train              |-> nobs_train,
         drop_reason             |-> DropReason(miss_share, lead_na, interior,
                                                nobs_train, a)]

\* mutant of Anchored: the row dated at the anchor is dropped too
Anchored_StrictlyAfter(df_all, anchor_ts) ==
    TakeRows(df_all, SortedSeq({i \in Pos(df_all.index) : At(df_all.index, i) > anchor_ts}))

\* df_all.loc[df_all.index >= anchor_ts]
Anchored(df_all, anchor_ts) ==
    TakeRows(df_all, SortedSeq({i \in Pos(df_all.index) : At(df_all.index, i) >= anchor_ts}))

\* mutant of KeptSeries: kept.append(col) runs for every column
KeptSeries_All(columns, dec) == columns

\* the else branch of "if why": the columns with no drop reason, in order
KeptSeries(columns, dec) ==
    SelectSeq(columns, LAMBDA c : dec[c].drop_reason = "")

\* the "if why" branch: the catalog entry of every column with a drop reason
DroppedSeries(columns, dec) ==
    [c \in {c \in DOMAIN dec : dec[c].drop_reason # ""} |-> dec[c]]

build_variant(df_all, a) ==
    LET anchored == Anchored(df_all, a.anchor_start)
        win      == pick_training_window(anchored, a.cov_thresh, a.train_years,
                                         a.holdout_months, a.min_run)
    IN  IF win.status # "ok" THEN [status |-> win.status]
        ELSE
        LET dec    == [c \in ColSet(anchored) |->
                          ColumnDecision(anchored, c, a.anchor_start,
                                         win.train_start, win.train_end, a)]
            kept   == KeptSeries(anchored.columns, dec)
            drop   == DroppedSeries(anchored.columns, dec)
            df_out == [TakeCols(anchored, kept) EXCEPT !.name = DATE_COL_DEFAULT]
        IN  [status         |-> "ok",
             train_window   |-> <<win.train_start, win.train_end>>,
             n_rows         |-> NRows(df_out),
             n_series       |-> NCols(df_out),
             kept_series    |-> kept,
             dropped_series |-> drop,
             df_out         |-> df_out]

\* the files of variant "name" under out_dir_processed and out_dir_meta
VariantArtifacts == {"name.csv", "name_sasdate_column.csv", "name_catalog.json"}

\* mutant of ArtifactsWritten: the files are written before the window is picked
ArtifactsWritten_Always(df_all, a) == VariantArtifacts

\* the files build_variant has written when it returns or raises: the two
\* CSVs and the catalog are written after the window is picked and the
\* columns are filtered, so none is written when pick_training_window raises
ArtifactsWritten(df_all, a) ==
    IF build_variant(df_all, a).status = "ok" THEN VariantArtifacts ELSE {}

(* ------------------------- float arithmetic on cells ------------------ *)

Abs(n) == IF n < 0 THEN -n ELSE n

Sign(n) == IF n < 0 THEN -1 ELSE IF n > 0 THEN 1 ELSE 0

RECURSIVE GCD(_, _)
GCD(a, b) == IF b = 0 THEN a ELSE GCD(b, a % b)

\* the number n/d (d # 0) in lowest terms
Frac(n, d) ==
    LET g == GCD(Abs(n), Abs(d))
    IN  [k |-> "num", v |-> (Sign(d) * n) \div g, d |-> Abs(d) \div g]

Inf(sign) == [k |-> "inf", v |-> sign, d |-> 1]

\* a - b in IEEE arithmetic: NaN propagates, inf - inf is NaN
FSub(a, b) ==
    IF a.k = "nan" \/ b.k = "nan" THEN NaN
    ELSE IF a.k = "inf" /\ b.k = "inf" THEN (IF a.v = b.v THEN NaN ELSE a)
    ELSE IF a.k = "inf" THEN a
    ELSE IF b.k = "inf" THEN Inf(-b.v)
    ELSE Frac(a.v * b.d - b.v * a.d, a.d * b.d)

\* a / b in IEEE arithmetic: x/0 is +-inf, 0/0 and inf/inf are NaN
FDiv(a, b) ==
    IF a.k = "nan" \/ b.k = "nan" THEN NaN
    ELSE IF a.k = "inf" /\ b.k = "inf" THEN NaN
    ELSE IF a.k = "inf" THEN Inf(IF b.v < 0 THEN -a.v ELSE a.v)
    ELSE IF b.k = "inf" THEN Num(0)
    ELSE IF b.v = 0 THEN (IF a.v = 0 THEN NaN ELSE Inf(Sign(a.v)))
    ELSE Frac(a.v * b.d, a.d * b.v)

\* natural logarithm of a positive integer, in thousandths
LogMilli(n) ==
    CASE n = 1 -> 0 [] n = 2 -> 693 [] n = 3 -> 1099 [] n = 4 -> 1386
      [] n = 5 -> 1609 [] n = 6 -> 1792 [] n = 7 -> 1946 [] n = 8 -> 2079

\* np.log of a cell that is NaN or > 0
FLog(a) ==
    IF a.k = "num" THEN Frac(LogMilli(a.v) - LogMilli(a.d), 1000)
    ELSE a

(* --------------------------- _transform_series ------------------------ *)

ALLOWED_TCODES == 1 .. 7

LEADS_LOST == <<0, 1, 2, 0, 1, 2, 2>>

\* pd.to_numeric(x, errors="coerce").astype(float)
to_numeric(x) == [i \in 1 .. Len(x) |-> IF x[i].k = "str" THEN NaN ELSE x[i]]

\* mutant of diff: the first row is filled with 0 instead of NaN
diff_ZeroFilled(s) ==
    [i \in 1 .. Len(s) |-> IF i = 1 THEN Num(0) ELSE FSub(s[i], s[i - 1])]

\* Series.diff(): row 0 is NaN, row i is s[i] - s[i-1]
diff(s) == [i \in 1 .. Len(s) |-> IF i = 1 THEN NaN ELSE FSub(s[i], s[i - 1])]

\* mutant of where_positive: cells that are not > 0 are clipped to 1
where_positive_Clipped(s) ==
    [i \in 1 .. Len(s) |->
        IF (s[i].k = "num" /\ s[i].v > 0) \/ (s[i].k = "inf" /\ s[i].v > 0)
        THEN s[i] ELSE IF s[i].k = "nan" THEN NaN ELSE Num(1)]

\* s.where(s > 0): cells that are not > 0 become NaN
where_positive(s) ==
    [i \in 1 .. Len(s) |->
        IF (s[i].k = "num" /\ s[i].v > 0) \/ (s[i].k = "inf" /\ s[i].v > 0)
        THEN s[i] ELSE NaN]

log(s) == [i \in 1 .. Len(s) |-> FLog(s[i])]

\* Series.pct_change(): s[i] / s[i-1] - 1, row 0 is NaN
pct_change(s) ==
    [i \in 1 .. Len(s) |->
        IF i = 1 THEN NaN ELSE FSub(FDiv(s[i], s[i - 1]), Num(1))]

\* mutant of replace_inf: infinite cells become 0 instead of NaN
replace_inf_ZeroFilled(y) ==
    [i \in 1 .. Len(y) |-> IF y[i].k = "inf" THEN Num(0) ELSE y[i]]

\* y.replace([np.inf, -np.inf], np.nan)
replace_inf(y) == [i \in 1 .. Len(y) |-> IF y[i].k = "inf" THEN NaN ELSE y[i]]

_transform_series(x, code) ==
    LET s == to_numeric(x)
    IN  CASE code = 1 -> [status |-> "ok", y |-> replace_inf(s)]
          [] code = 2 -> [status |-> "ok", y |-> replace_inf(diff(s))]
          [] code = 3 -> [status |-> "ok", y |-> replace_inf(diff(diff(s)))]
          [] code = 4 -> [status |-> "ok", y |-> replace_inf(log(where_positive(s)))]
          [] code = 5 -> [status |-> "ok", y |-> replace_inf(diff(log(where_positive(s))))]
          [] code = 6 -> [status |-> "ok",
                          y |-> replace_inf(diff(diff(log(where_positive(s)))))]
          [] code = 7 -> [status |-> "ok", y |-> replace_inf(diff(pct_change(s)))]
          [] OTHER    -> [status |-> "ValueError", y |-> <<>>]

\* index.is_monotonic_increasing
IsMonotonic(idx) == \A i \in 1 .. (Len(idx) - 1) : idx[i] <= idx[i + 1]

RECURSIVE StableSortPos(_, _)
\* the positions in S ordered by timestamp, ties in position order (stable)
StableSortPos(idx, S) ==
    IF S = {} THEN <<>>
    ELSE LET m == CHOOSE i \in S :
                    \A j \in S : At(idx, i) < At(idx, j) \/ (At(idx, i) = At(idx, j) /\ i <= j)
         IN  <<m>> \o StableSortPos(idx, S \ {m})

\* mutant of sort_index: the rows are put in descending order of time
sort_index_Descending(p) ==
    LET asc == StableSortPos(p.index, Pos(p.index))
    IN  TakeRows(p, [k \in 1 .. Len(asc) |-> asc[Len(asc) + 1 - k]])

\* df.sort_index()
sort_index(p) == TakeRows(p, StableSortPos(p.index, Pos(p.index)))

\* mutant of MissingCodes: only the first column without a code is reported
MissingCodes_FirstOnly(columns, tcode_map) ==
    LET all == SelectSeq(columns, LAMBDA c : c \notin DOMAIN tcode_map)
    IN  IF all = <<>> THEN <<>> ELSE <<Head(all)>>

\* [c for c in df.columns if c not in tcode_map]
MissingCodes(columns, tcode_map) ==
    SelectSeq(columns, LAMBDA c : c \notin DOMAIN tcode_map)

\* tcode_map is a function series name -> code
apply_tcode_transformations(p0, tcode_map) ==
    LET p       == IF IsMonotonic(p0.index) THEN p0 ELSE sort_index(p0)
        missing == MissingCodes(p.columns, tcode_map)
        invalid == {c \in DOMAIN tcode_map : tcode_map[c] \notin ALLOWED_TCODES}
    IN  IF missing # <<>> THEN [status |-> "KeyError", missing |-> missing]
        ELSE IF invalid # {} THEN [status |-> "ValueError", invalid |-> invalid]
        ELSE [status |-> "ok",
              panel  |-> [p EXCEPT !.data =
                            [c \in ColSet(p) |-> _transform_series(p.data[c], tcode_map[c]).y]]]


(* ------------------------------- _zscore ------------------------------ *)

FAdd(a, b) == FSub(a, [b EXCEPT !.v = -b.v])

\* a * b for finite numbers
FMul(a, b) == Frac(a.v * b.v, a.d * b.d)

\* significand bits of the floating-point format: float64 arithmetic
\* (round to nearest, ties to even) with its 53-bit significand shortened
\* to FloatBits bits; the exponent range is not bounded
FloatBits == 3

RECURSIVE Pow2(_)
Pow2(k) == IF k = 0 THEN 1 ELSE 2 * Pow2(k - 1)

\* the significands of the floats lie in FloatLo .. FloatHi - 1
FloatHi == Pow2(FloatBits)

FloatLo == Pow2(FloatBits - 1)

RECURSIVE RoundPos(_, _, _)
\* the float nearest to the positive number (n/d) * 2^e, ties to the even
\* significand: n/d is first brought into [2^(FloatBits-1), 2^FloatBits)
RoundPos(n, d, e) ==
    IF n >= FloatHi * d THEN RoundPos(n, 2 * d, e + 1)
    ELSE IF n < FloatLo * d THEN RoundPos(2 * n, d, e - 1)
    ELSE LET m  == n \div d
             r  == n - m * d
             mm == IF 2 * r > d \/ (2 * r = d /\ m % 2 = 1) THEN m + 1 ELSE m
         IN  IF e >= 0 THEN Frac(mm * Pow2(e), 1) ELSE Frac(mm, Pow2(-e))

\* F applied to the value of a, which is computed once
Once(F(_), a) == CHOOSE r \in {F(x) : x \in {a}} : TRUE

\* the result of an arithmetic operation, rounded to the float format
Fl(c) ==
    IF c.k # "num" \/ c.v = 0 THEN c
    ELSE LET a == RoundPos(Abs(c.v), c.d, 0)
         IN  [a EXCEPT !.v = Sign(c.v) * a.v]

FlAdd(a, b) == Fl(FAdd(a, b))

FlSub(a, b) == Fl(FSub(a, b))

FlMul(a, b) == Fl(FMul(a, b))

FlDiv(a, b) == Fl(FDiv(a, b))

RECURSIVE SumCells(_, _)
\* values.sum(): the cells s[1..k] added up from left to right, each partial
\* sum rounded
SumCells(s, k) == IF k = 0 THEN Num(0) ELSE FlAdd(SumCells(s, k - 1), s[k])

\* the non-missing cells of a series, in order
Observed(s) == SelectSeq(s, notna)

\* df.mean(skipna=True) of one column: NaN for a column without observations
ColMean(s) ==
    LET o == Observed(s)
    IN  IF Len(o) = 0 THEN NaN ELSE FlDiv(SumCells(o, Len(o)), Num(Len(o)))

\* the variance behind df.std(ddof, skipna=True): the rounded mean of the
\* rounded squares of (mean - x); NaN unless more than ddof observations; a
\* column holding an infinity has no finite mean or variance
ColVar(s, ddof) ==
    LET o   == Observed(s)
        mu  == ColMean(s)
        sq(m, x) == Once(LAMBDA dv : FlMul(dv, dv), FlSub(m, x))
        dev(m) == [i \in 1 .. Len(o) |-> sq(m, o[i])]
    IN  IF Len(o) - ddof <= 0 \/ mu.k # "num" THEN NaN
        ELSE FlDiv(Once(LAMBDA m : SumCells(dev(m), Len(o)), mu), Num(Len(o) - ddof))

\* sigma.replace({0.0: np.nan}); a defined sigma is kept as its square
ColSigma(s, ddof) ==
    LET var == ColVar(s, ddof)
    IN  IF var.k # "num" \/ var.v = 0 THEN NaN ELSE [var EXCEPT !.k = "sqrt"]

\* (x - mu) / sigma: the cell keeps x - mu, read in units of sigma
ZCell(x, mu, sigma) ==
    IF isna(x) \/ isna(sigma) \/ mu.k # "num" THEN NaN
    ELSE IF x.k = "inf" THEN x
    ELSE [FlSub(x, mu) EXCEPT !.k = "z"]

_zscore(p, ddof) ==
    LET stats(mu, sigma) ==
            [z     |-> [p EXCEPT !.data =
                          [c \in ColSet(p) |->
                              [i \in 1 .. NRows(p) |-> ZCell(p.data[c][i], mu[c], sigma[c])]]],
             mu    |-> mu,
             sigma |-> sigma]
    IN  Once(LAMBDA mu : Once(LAMBDA sigma : stats(mu, sigma),
                              [c \in ColSet(p) |-> ColSigma(p.data[c], ddof)]),
             [c \in ColSet(p) |-> ColMean(p.data[c])])

(* ----------------------- prepare_panel_for_factors -------------------- *)

\* position of the first non-NaN cell, -1 for None
_first_valid_iloc(s) == IF ValidPos(s) = {} THEN -1 ELSE SetMin(ValidPos(s))

\* mutant of GlobalFirst: the earliest instead of the latest first-valid row
GlobalFirst_Min(valid_locs) == IF valid_locs = {} THEN 0 ELSE SetMin(valid_locs)

\* global_first = max(valid_locs) if valid_locs else 0
GlobalFirst(valid_locs) == IF valid_locs = {} THEN 0 ELSE SetMax(valid_locs)

\* mutant of dropna_any: dropna(how="all")
dropna_OnlyEmptyRows(p) ==
    TakeRows(p, SortedSeq({i \in Pos(p.index) :
                              \E c \in ColSet(p) : notna(At(p.data[c], i))}))

\* dropna(axis=0, how="any"): the rows without any missing cell
dropna_any(p) ==
    TakeRows(p, SortedSeq({i \in Pos(p.index) :
                              \A c \in ColSet(p) : notna(At(p.data[c], i))}))

\* df.iloc[k:]
RowsFrom(p, k) == TakeRows(p, SortedSeq({i \in Pos(p.index) : i >= k}))

prepare_panel_for_factors(df_raw, tcode_map, balance, standardize, ddof) ==
    LET t == apply_tcode_transformations(df_raw, tcode_map)
        \* the steps after the all-NaN columns are dropped
        Balanced(df_t0, df_t) ==
            LET all_nan_cols == SelectSeq(df_t0.columns,
                                    LAMBDA c : _first_valid_iloc(df_t0.data[c]) = -1)
                first_locs   == [c \in ColSet(df_t) |-> _first_valid_iloc(df_t.data[c])]
                global_first == GlobalFirst({first_locs[c] : c \in ColSet(df_t)} \ {-1})
                trimmed      == RowsFrom(df_t, global_first)
                df_b         == CASE balance = "none"    -> df_t
                                  [] balance = "initial" -> trimmed
                                  [] balance = "all"     -> dropna_any(trimmed)
                                  [] OTHER               -> df_t
                \* the returned pair (panel, info)
                Result(b, zs) ==
                    [status |-> "ok",
                     panel  |-> IF standardize THEN zs.z ELSE b,
                     info   |-> [all_nan_columns_dropped |-> all_nan_cols,
                                 first_valid_iloc_by_col |-> first_locs,
                                 global_first_valid_iloc |-> global_first,
                                 rows_dropped            |->
                                     SortedSeq(SeqToSet(df_t.index) \ SeqToSet(b.index)),
                                 standardized            |-> standardize,
                                 means |-> IF standardize THEN zs.mu ELSE None,
                                 stds  |-> IF standardize THEN zs.sigma ELSE None]]
            IN  Once(LAMBDA b : Once(LAMBDA zs : Result(b, zs),
                                     IF standardize THEN _zscore(b, ddof) ELSE None),
                     df_b)
    IN  IF t.status # "ok" THEN [status |-> t.status]
        ELSE IF balance \notin {"none", "initial", "all"} THEN [status |-> "ValueError"]
        ELSE Once(LAMBDA df_t0 :
                    Once(LAMBDA df_t : Balanced(df_t0, df_t),
                         TakeCols(df_t0, SelectSeq(df_t0.columns,
                                    LAMBDA c : _first_valid_iloc(df_t0.data[c]) # -1))),
                  t.panel)


(* ===================== specification: training window ================= *)
(* pick_training_window applied to an anchored monthly panel.             *)

\* largest holdout_months tried
MaxHoldout == 2
\* largest min_run tried
MaxMinRun == 3
\* largest train_years tried
MaxTrainYears == 1
\* rows of the long panels (longer than one training year)
MaxLongRows == 14

COV_THRESH_DEFAULT == <<3, 4>>

TRAIN_YEARS_DEFAULT == 30

HOLDOUT_MONTHS_DEFAULT == 60

MIN_RUN_CONSEC_DEFAULT == 12

Present == Num(1)

WinCols == <<"A", "B">>

\* a monthly panel of two series from the two cell sequences
Panel2(m0, a, b) ==
    [name    |-> DATE_COL_DEFAULT,
     index   |-> MonthlyIndex(m0, Len(a)),
     columns |-> WinCols,
     data    |-> [c \in {"A", "B"} |-> IF c = "A" THEN a ELSE b]]

\* a series of n rows: missing before row lead and at row hole (hole = -1: none)
Ragged(n, lead, hole) ==
    [i \in 1 .. n |-> IF i - 1 < lead \/ i - 1 = hole THEN NaN ELSE Present]

\* the series of n rows over the cells {NaN, Present}
Masks(n) == [1 .. n -> {NaN, Present}]

\* df is some panel of at most maxRows rows over the cells {NaN, Present}
IsMaskPanel(p, maxRows) ==
    \E n \in 0 .. maxRows : \E a, b \in Masks(n) : p = Panel2(1, a, b)

\* df is some ragged-edge panel longer than one training year
IsLongWinPanel(p) ==
    \E n \in (MonthsPerYear + 1) .. MaxLongRows :
        \E la \in 0 .. 2, h \in {-1, 1, 2, 3}, lb \in 0 .. 2 :
            p = Panel2(1, Ragged(n, la, h), Ragged(n, lb, -1))

\* section 8 of the design: coverage below the threshold in months 0-11 and
\* at it in months 12-47
ExamplePanel ==
    LET s == Ragged(4 * MIN_RUN_CONSEC_DEFAULT, MIN_RUN_CONSEC_DEFAULT, -1)
    IN  Panel2(0, s, s)

WinArgs ==
    [cov_thresh     : {<<1, 2>>, COV_THRESH_DEFAULT},
     train_years    : 1 .. MaxTrainYears,
     holdout_months : 0 .. MaxHoldout,
     min_run        : 1 .. MaxMinRun]

DefaultWinArgs ==
    [cov_thresh     |-> COV_THRESH_DEFAULT,
     train_years    |-> TRAIN_YEARS_DEFAULT,
     holdout_months |-> HOLDOUT_MONTHS_DEFAULT,
     min_run        |-> MIN_RUN_CONSEC_DEFAULT]

InitWindow ==
    /\ pc = "call"
    /\ ret = None
    /\ \/ (IsMaskPanel(df, MaxWinRows) \/ IsLongWinPanel(df)) /\ args \in WinArgs
       \/ df = ExamplePanel /\ args \in {DefaultWinArgs, [DefaultWinArgs EXCEPT !.holdout_months = 0]}

PickTrainingWindow ==
    /\ pc = "call"
    /\ pc' = "done"
    /\ ret' = pick_training_window(df, args.cov_thresh, args.train_years,
                                   args.holdout_months, args.min_run)
    /\ UNCHANGED <<df, args>>

NextWindow == PickTrainingWindow

SpecWindow == InitWindow /\ [][NextWindow]_vars

\* position of the first month of the earliest run of min_run consecutive
\* months whose coverage meets the threshold (-1: no such run)
RunStarts(p, cov_thresh, min_run) ==
    {i \in Pos(p.index) :
        /\ i + min_run - 1 <= NRows(p) - 1
        /\ \A j \in i .. (i + min_run - 1) : FracGE(Coverage(p, j), cov_thresh)}

WinDone == pc = "done" /\ ret.status = "ok"

\* C1 (as claimed): when a run of min_run qualifying months exists, the
\* qualifying month is the first month of the earliest such run, and on the
\* example panel the window starts at month 12.
C1_FirstOkBeginsRun ==
    WinDone =>
        LET R == RunStarts(df, args.cov_thresh, args.min_run)
        IN  /\ R # {} => ret.first_ok = At(df.index, SetMin(R))
            /\ df = ExamplePanel => ret.train_start = MonthStart(MIN_RUN_CONSEC_DEFAULT)

\* what the code does instead: the qualifying month is the LAST month of the
\* first min_run months of the earliest run (the row where the trailing
\* rolling window first holds), month 23 on the example panel
C1_FirstOkEndsRun ==
    WinDone =>
        LET R == RunStarts(df, args.cov_thresh, args.min_run)
        IN  /\ R # {} => ret.first_ok = At(df.index, SetMin(R) + args.min_run - 1)
            /\ df = ExamplePanel =>
                   ret.train_start = MonthStart(2 * MIN_RUN_CONSEC_DEFAULT - 1)

\* C2: the returned window satisfies start <= end and both ends are
\* timestamps of the anchored panel's index.
C2_WindowWithinPanel ==
    WinDone =>
        /\ ret.train_start <= ret.train_end
        /\ \E i \in Pos(df.index) : At(df.index, i) = ret.train_start
        /\ \E i \in Pos(df.index) : At(df.index, i) = ret.train_end

\* C2 witness: a window that had to be shrunk because the holdout left
\* nothing after the qualifying month
C2_Witness ==
    WinDone /\ ret.shrunk /\ args.holdout_months > 0 /\ ret.train_start < ret.train_end

\* position of the qualifying month the call chose
QualifyingPos == CHOOSE i \in Pos(df.index) : At(df.index, i) = ret.first_ok

\* position of the step-3 end: the last row minus the holdout, never before
\* the first row
Step3End == Max2(0, NRows(df) - 1 - args.holdout_months)

\* position of the step-4 start: the later of the qualifying month and the
\* row that gives the desired length
Step4Start == Max2(QualifyingPos, Step3End - MonthsPerYear * args.train_years + 1)

\* C16: when the step-4 start does not exceed the step-3 end, the window ends
\* at the row at position max(0, n-1-holdout_months) and starts at the later
\* of the qualifying month and the row at position end-12*train_years+1.
C16_WindowFromEndAndLength ==
    (WinDone /\ Step4Start <= Step3End) =>
        LET want == Step3End - MonthsPerYear * args.train_years + 1
        IN  /\ ret.train_end = At(df.index, Step3End)
            /\ ret.train_start =
                   IF want >= 0 THEN Max2(ret.first_ok, At(df.index, want))
                   ELSE ret.first_ok

\* C16 witness: a panel longer than the desired length plus the holdout, so
\* that the window starts after the qualifying month and ends before the
\* last row
C16_Witness ==
    /\ WinDone /\ Step4Start <= Step3End
    /\ args.holdout_months > 0
    /\ ret.train_start > ret.first_ok
    /\ ret.train_end < At(df.index, NRows(df) - 1)
    /\ ret.train_end - ret.train_start = MonthStart(MonthsPerYear * args.train_years - 1)

OkMonths == {i \in Pos(df.index) : FracGE(Coverage(df, i), args.cov_thresh)}

\* C18: when no run of min_run consecutive months meets the threshold, the
\* qualifying month is the first month whose own coverage meets it; when no
\* month meets it, it is the row at position min_run-1, or the last row of a
\* panel of fewer than min_run rows.
C18_FallbackMonth ==
    (WinDone /\ RunStarts(df, args.cov_thresh, args.min_run) = {}) =>
        ret.first_ok =
            IF OkMonths # {} THEN At(df.index, SetMin(OkMonths))
            ELSE IF NRows(df) < args.min_run THEN At(df.index, NRows(df) - 1)
            ELSE At(df.index, args.min_run - 1)

\* C18 witness: no month meets the threshold in a panel of more than
\* min_run rows, and the row at position min_run-1 > 0 is chosen
C18_Witness ==
    /\ WinDone /\ OkMonths = {}
    /\ args.min_run >= 2 /\ NRows(df) > args.min_run
    /\ ret.first_ok = At(df.index, args.min_run - 1)

\* C18 second case: an isolated qualifying month, not part of any run
C18_IsolatedMonth ==
    /\ WinDone /\ RunStarts(df, args.cov_thresh, args.min_run) = {}
    /\ OkMonths # {} /\ SetMin(OkMonths) > 0
    /\ ret.first_ok = At(df.index, SetMin(OkMonths))

(* ======================= specification: build_variant ================= *)
(* build_variant applied to a monthly panel and an anchor date.           *)

MISS_SHARE_MAX_DEFAULT == <<2, 5>>

\* anchor dates: before the panel, on its second row, inside its second
\* month, after its last possible row
VarAnchors ==
    {MonthStart(0), MonthStart(2), MonthStart(2) + 1, MonthStart(MaxVarRows + 1)}

VarArgs ==
    [anchor_start            : VarAnchors,
     miss_share_max          : {MISS_SHARE_MAX_DEFAULT},
     lead_limit_months       : {0, 1},
     interior_gap_max_months : {0, 1},
     min_obs_train_months    : {1, 2},
     cov_thresh              : {<<1, 2>>},
     train_years             : {1},
     holdout_months          : {0, 1},
     min_run                 : {1, 2}]

InitVariant ==
    /\ pc = "call"
    /\ ret = None
    /\ IsMaskPanel(df, MaxVarRows)
    /\ args \in VarArgs

BuildVariant ==
    /\ pc = "call"
    /\ pc' = "done"
    /\ ret' = build_variant(df, args)
    /\ UNCHANGED <<df, args>>

NextVariant == BuildVariant

SpecVariant == InitVariant /\ [][NextVariant]_vars

VarDone == pc = "done" /\ ret.status = "ok"

\* the rule violations of a catalog entry, from its recorded diagnostics
ViolatesShare(d) == FracGT(d.missing_share, args.miss_share_max)

ViolatesLead(d) == d.leading_na_since_anchor > args.lead_limit_months

ViolatesGap(d) == d.interior_gap_months > args.interior_gap_max_months

ViolatesObs(d) == d.nobs_train < args.min_obs_train_months

\* C3: the drop reason of every dropped series is the first violated rule in
\* the order missing-share, leading-NaN, interior-gap, min-training-obs.
C3_FirstViolatedRule ==
    VarDone =>
        \A c \in DOMAIN ret.dropped_series :
            LET d == ret.dropped_series[c]
            IN  d.drop_reason =
                    IF ViolatesShare(d) THEN "missing_share>"
                    ELSE IF ViolatesLead(d) THEN "leading_na>"
                    ELSE IF ViolatesGap(d) THEN "interior_gap>"
                    ELSE IF ViolatesObs(d) THEN "nobs_train<"
                    ELSE "no rule violated"

\* C3 witness: a series violating the missing-share and the interior-gap
\* rule is dropped for its missing share
C3_Witness ==
    VarDone /\ \E c \in DOMAIN ret.dropped_series :
        LET d == ret.dropped_series[c]
        IN  ViolatesShare(d) /\ ViolatesGap(d) /\ ~ViolatesLead(d)
            /\ d.drop_reason = "missing_share>"

DecisionFields ==
    {"missing_share", "leading_na_since_anchor", "interior_gap_months",
     "nobs_train", "drop_reason"}

\* C4: kept and dropped series partition the columns of the anchored panel,
\* every dropped series carries a reason and its four diagnostics, and the
\* build fails only when the anchored panel is empty.
C4_DecisionsPartitionColumns ==
    pc = "done" =>
        /\ ret.status = "ok" <=> ~IsEmpty(Anchored(df, args.anchor_start))
        /\ ret.status = "ok" =>
            /\ SeqToSet(ret.kept_series) \cap DOMAIN ret.dropped_series = {}
            /\ SeqToSet(ret.kept_series) \cup DOMAIN ret.dropped_series = ColSet(df)
            /\ \A c \in DOMAIN ret.dropped_series :
                /\ DOMAIN ret.dropped_series[c] = DecisionFields
                /\ ret.dropped_series[c].drop_reason # ""

\* C4 witness: every series is dropped and the build still succeeds
C4_Witness ==
    VarDone /\ ret.kept_series = <<>> /\ DOMAIN ret.dropped_series = ColSet(df)
        /\ ret.n_series = 0

(* ===================== specification: _transform_series =============== *)
(* _transform_series applied to one raw series and one code.              *)

\* longest raw series tried
MaxSeriesLen == 4

\* the tokens of a raw series
RawCells == {Num(-1), Num(0), Num(1), Num(2), NaN, PInf, NInf, Junk}

\* the codes tried: the allowed ones and one on either side
TriedCodes == 0 .. 8

InitTcode ==
    /\ pc = "call"
    /\ ret = None
    /\ \E n \in 0 .. MaxSeriesLen : df \in [1 .. n -> RawCells]
    /\ args \in [code : TriedCodes]

TransformSeries ==
    /\ pc = "call"
    /\ pc' = "done"
    /\ ret' = _transform_series(df, args.code)
    /\ UNCHANGED <<df, args>>

NextTcode == TransformSeries

SpecTcode == InitTcode /\ [][NextTcode]_vars

TcodeDone == pc = "done" /\ ret.status = "ok"

\* number of leading missing cells of a series
LeadingNa(y) == Cardinality({i \in Pos(y) : \A j \in 0 .. i : isna(At(y, j))})

AllFinite(x) == \A i \in Pos(x) : At(x, i).k = "num"

\* C10 (as claimed): for codes 2 and 3 and an input without missing values
\* the output has exactly LEADS_LOST[code] leading missing values and no
\* other missing value.
C10_LeadsLostExact ==
    (/\ TcodeDone /\ args.code \in {2, 3} /\ Len(df) >= 1
     /\ \A i \in Pos(df) : notna(to_numeric(df)[i + 1])) =>
        /\ LeadingNa(ret.y) = LEADS_LOST[args.code]
        /\ Cardinality(MissingPos(ret.y)) = LEADS_LOST[args.code]

\* C10 (amended): for codes 2 and 3 and an input of n finite numbers the
\* output has exactly min(LEADS_LOST[code], n) leading missing values and no
\* other missing value.
C10_LeadsLostUpToLength ==
    (TcodeDone /\ args.code \in {2, 3} /\ AllFinite(df)) =>
        /\ Len(ret.y) = Len(df)
        /\ LeadingNa(ret.y) = Min2(LEADS_LOST[args.code], Len(df))
        /\ Cardinality(MissingPos(ret.y)) = Min2(LEADS_LOST[args.code], Len(df))

\* C10 witness: a second difference of a full series loses exactly its two
\* leading rows
C10_Witness ==
    /\ TcodeDone /\ args.code = 3 /\ AllFinite(df) /\ Len(df) = MaxSeriesLen
    /\ MissingPos(ret.y) = {0, 1}

NonPositive(c) == (c.k = "num" /\ c.v <= 0) \/ (c.k = "inf" /\ c.v < 0)

PositiveFinite(c) == c.k = "num" /\ c.v > 0

\* C11: for codes 4, 5 and 6 every input value <= 0 gives a missing output
\* at its own position and at the later positions whose difference depends
\* on it (one more for code 5, two more for code 6); no output is infinite,
\* and the logarithm (code 4) of a strictly positive value is a finite number.
C11_NonPositiveBecomesMissing ==
    (TcodeDone /\ args.code \in {4, 5, 6}) =>
        LET s     == to_numeric(df)
            reach == args.code - 4
        IN  /\ Len(ret.y) = Len(s)
            /\ \A i \in Pos(s) : NonPositive(At(s, i)) =>
                    \A j \in i .. Min2(i + reach, Len(s) - 1) : isna(At(ret.y, j))
            /\ \A i \in Pos(s) : At(ret.y, i).k # "inf"
            /\ args.code = 4 =>
                    \A i \in Pos(s) : PositiveFinite(At(s, i)) => At(ret.y, i).k = "num"

\* C11 witness: a growth rate (code 5) of <<positive, non-positive,
\* positive, positive>>: rows 1 and 2 are missing, row 3 is a number again
C11_Witness ==
    /\ TcodeDone /\ args.code = 5 /\ Len(df) = 4
    /\ PositiveFinite(df[1]) /\ NonPositive(df[2])
    /\ PositiveFinite(df[3]) /\ PositiveFinite(df[4])
    /\ isna(ret.y[2]) /\ isna(ret.y[3]) /\ ret.y[4].k = "num"

\* C12 (as claimed): for code 1 the output is the numeric input at every
\* position: non-missing values identical, missing values missing.
C12_IdentityExact ==
    (TcodeDone /\ args.code = 1) => ret.y = to_numeric(df)

\* C12 (amended): for code 1 every finite value is returned identical and
\* every missing value stays missing, at its own position; an infinite value
\* is returned missing.
C12_IdentityExceptInfinite ==
    (TcodeDone /\ args.code = 1) =>
        LET s == to_numeric(df)
        IN  /\ Len(ret.y) = Len(s)
            /\ \A i \in Pos(s) :
                    At(ret.y, i) = IF At(s, i).k = "num" THEN At(s, i) ELSE NaN

\* C12 witness: the identity applied to a series holding a number, a missing
\* value and an infinite value
C12_Witness ==
    /\ TcodeDone /\ args.code = 1 /\ Len(df) = 3
    /\ df[1].k = "num" /\ df[2].k = "nan" /\ df[3].k = "inf"
    /\ ret.y = <<df[1], NaN, NaN>>

(* ================ specification: apply_tcode_transformations ========== *)
(* apply_tcode_transformations applied to one panel, whose rows need not  *)
(* be in time order, and one code map.                                     *)

\* most rows of a panel handed to apply_tcode_transformations; its
\* timestamps are 0 .. MaxApplyRows, so that ties and disorder happen
MaxApplyRows == 2

\* the codes a map may hold: allowed ones and one on either side
MapCodes == {0, 1, 2, 5, 7, 8}

\* the series names a map may hold: the two columns and a name that is no
\* column of the panel
MapKeys == {"A", "B", "X"}

ApplyPanel(idx, miss) ==
    [name    |-> DATE_COL_DEFAULT,
     index   |-> idx,
     columns |-> WinCols,
     data    |-> [c \in {"A", "B"} |->
                    [i \in 1 .. Len(idx) |->
                        IF c = "A" THEN (IF miss[i] THEN NaN ELSE Num(i))
                        ELSE Num(i + Len(idx))]]]

IsApplyPanel(p) ==
    \E n \in 0 .. MaxApplyRows :
        \E idx \in [1 .. n -> 0 .. MaxApplyRows], miss \in [1 .. n -> BOOLEAN] :
            p = ApplyPanel(idx, miss)

InitApply ==
    /\ pc = "call"
    /\ ret = None
    /\ IsApplyPanel(df)
    /\ \E K \in SUBSET MapKeys : \E m \in [K -> MapCodes] : args = [tcode_map |-> m]

ApplyTcodeTransformations ==
    /\ pc = "call"
    /\ pc' = "applied"
    /\ ret' = apply_tcode_transformations(df, args.tcode_map)
    /\ UNCHANGED <<df, args>>

NextApply == ApplyTcodeTransformations

SpecApply == InitApply /\ [][NextApply]_vars

Applied == pc = "applied" /\ ret.status = "ok"

\* number of rows of an index labelled t
CountOf(idx, t) == Cardinality({i \in Pos(idx) : At(idx, i) = t})

Uncoded == {c \in ColSet(df) : c \notin DOMAIN args.tcode_map}

\* C14: when some column has no entry in the code map the call fails with
\* an error naming every such column, and returns no panel, whether or not
\* other codes are invalid.
C14_EveryMissingColumnNamed ==
    (pc = "applied" /\ Uncoded # {}) =>
        /\ ret.status = "KeyError"
        /\ SeqToSet(ret.missing) = Uncoded
        /\ "panel" \notin DOMAIN ret

\* C14 witness: both columns lack a code and the only entry of the map is an
\* invalid code
C14_Witness ==
    /\ pc = "applied" /\ Uncoded = {"A", "B"}
    /\ DOMAIN args.tcode_map = {"X"} /\ args.tcode_map["X"] \notin ALLOWED_TCODES
    /\ ret.status = "KeyError" /\ Len(ret.missing) = 2

\* the code map without its entries for names that are no column
OnColumns(tcode_map, p) ==
    [c \in DOMAIN tcode_map \cap ColSet(p) |-> tcode_map[c]]

\* C15: entries of the code map for names that are no column are ignored:
\* when the call without them returns a panel, the call with them returns
\* that same panel, whatever their values.
C15_ExtraEntriesIgnored ==
    pc = "applied" =>
        LET without == apply_tcode_transformations(df, OnColumns(args.tcode_map, df))
        IN  without.status = "ok" => ret = without

\* the extra entries are ignored whenever their codes are allowed ones;
\* an extra entry with a code outside 1..7 makes the call fail
C15_ExtraEntriesValidated ==
    pc = "applied" =>
        LET without == apply_tcode_transformations(df, OnColumns(args.tcode_map, df))
            extra   == DOMAIN args.tcode_map \ ColSet(df)
        IN  without.status = "ok" =>
                IF \A c \in extra : args.tcode_map[c] \in ALLOWED_TCODES
                THEN ret = without
                ELSE ret.status = "ValueError"

(* ===================== specification: monthly grid ==================== *)
(* ensure_monthly_index and ensure_monthly_panel applied to a dated table, *)
(* and ensure_monthly_index applied again to its own result.              *)

\* most rows of a dated table
MaxGridRows == 3
\* the timestamps of a dated table lie in months 0 .. MaxGridMonths
MaxGridMonths == 2

\* pd.date_range(lo, hi, freq="MS"): the month starts within [lo, hi]
date_range_MS(lo, hi) == SortedSeq({t \in lo .. hi : t % SlotsPerMonth = 0})

HasDuplicates(idx) == \E i, j \in Pos(idx) : i # j /\ At(idx, i) = At(idx, j)

\* df.reindex(full): the row labelled t for every t of full, a missing row
\* for a label the table does not have; duplicate labels cannot be reindexed
reindex(p, full) ==
    IF HasDuplicates(p.index) /\ Len(full) > 0 THEN [status |-> "ValueError"]
    ELSE
    LET row(t) == CHOOSE i \in Pos(p.index) : At(p.index, i) = t
        has(t) == \E i \in Pos(p.index) : At(p.index, i) = t
    IN  [status |-> "ok",
         panel  |-> [name    |-> p.name,
                     index   |-> full,
                     columns |-> p.columns,
                     data    |-> [c \in DOMAIN p.data |->
                                    [k \in 1 .. Len(full) |->
                                        IF has(full[k]) THEN At(p.data[c], row(full[k]))
                                        ELSE NaN]]]]

\* idx.min() / idx.max() of an empty index is NaT, which date_range rejects
ensure_monthly_index(p) ==
    IF NRows(p) = 0 THEN [status |-> "ValueError"]
    ELSE
    LET idx  == SeqToSet(p.index)
        full == date_range_MS(SetMin(idx), SetMax(idx))
        out  == reindex(p, full)
    IN  IF out.status # "ok" THEN out
        ELSE [status |-> "ok",
              panel  |-> [out.panel EXCEPT
                            !.name = IF p.name = "" THEN DATE_COL_DEFAULT ELSE p.name]]

\* the table after read_csv / to_datetime / set_index(date_col)
ensure_monthly_panel(p, date_col) ==
    IF NRows(p) = 0 THEN [status |-> "ValueError"]
    ELSE
    LET sorted == sort_index(p)
        idx    == SeqToSet(sorted.index)
        full   == date_range_MS(SetMin(idx), SetMax(idx))
        out    == reindex(sorted, full)
    IN  IF out.status # "ok" THEN out
        ELSE [status |-> "ok", panel |-> [out.panel EXCEPT !.name = date_col]]

GridTimestamps == 0 .. MonthStart(MaxGridMonths)

\* row i of a dated table: series B always observed, series A possibly missing
GridPanel(name, idx, miss) ==
    [name    |-> name,
     index   |-> idx,
     columns |-> WinCols,
     data    |-> [c \in {"A", "B"} |->
                    [i \in 1 .. Len(idx) |->
                        IF c = "A" THEN (IF miss[i] THEN NaN ELSE Num(i))
                        ELSE Num(i + Len(idx))]]]

\* df is some dated table of at most MaxGridRows rows
IsGridPanel(p) ==
    \E n \in 0 .. MaxGridRows :
        \E name \in {"", "date"}, idx \in [1 .. n -> GridTimestamps],
           miss \in [1 .. n -> BOOLEAN] :
            p = GridPanel(name, idx, miss)

InitGrid ==
    /\ pc = "call"
    /\ ret = None
    /\ args = [date_col |-> DATE_COL_DEFAULT]
    /\ IsGridPanel(df)

\* first application; ret.first keeps the panel handed in
EnsureMonthlyIndex ==
    /\ pc = "call"
    /\ pc' = "once"
    /\ ret' = ensure_monthly_index(df)
    /\ UNCHANGED <<df, args>>

\* second application, to the result of the first
EnsureMonthlyIndexAgain ==
    /\ pc = "once"
    /\ ret.status = "ok"
    /\ pc' = "twice"
    /\ LET r == ensure_monthly_index(ret.panel)
       IN  ret' = [status |-> r.status,
                   first  |-> ret.panel,
                   panel  |-> IF r.status = "ok" THEN r.panel ELSE ret.panel]
    /\ UNCHANGED <<df, args>>

EnsureMonthlyPanel ==
    /\ pc = "call"
    /\ pc' = "panel"
    /\ ret' = ensure_monthly_panel(df, args.date_col)
    /\ UNCHANGED <<df, args>>

NextGrid == EnsureMonthlyIndex \/ EnsureMonthlyIndexAgain \/ EnsureMonthlyPanel

SpecGrid == InitGrid /\ [][NextGrid]_vars

\* C7 (as claimed): applying ensure_monthly_index to its own result succeeds
\* and returns an identical panel.
C7_Idempotent ==
    pc = "twice" => (ret.status = "ok" /\ ret.panel = ret.first)

\* C7 on dated tables with a month start between their first and last
\* timestamp: the second application returns the first result
C7_IdempotentOnNonEmptyGrid ==
    (pc = "twice" /\ NRows(ret.first) > 0) => (ret.status = "ok" /\ ret.panel = ret.first)

GridDone == pc \in {"once", "panel"} /\ ret.status = "ok"

RowOf(p, i) == [c \in ColSet(p) |-> At(p.data[c], i)]

\* C8 (as claimed): the output index is the month starts from the input's
\* minimum to its maximum timestamp, every input row keeps its values at its
\* own timestamp, and every other output row is missing in every column.
C8_GridKeepsEveryRow ==
    GridDone =>
        LET in == df
            out == ret.panel
        IN  /\ out.index = date_range_MS(SetMin(SeqToSet(in.index)), SetMax(SeqToSet(in.index)))
            /\ \A i \in Pos(in.index) : \E j \in Pos(out.index) :
                   At(out.index, j) = At(in.index, i) /\ RowOf(out, j) = RowOf(in, i)
            /\ \A j \in Pos(out.index) :
                   At(out.index, j) \notin SeqToSet(in.index) =>
                       \A c \in ColSet(out) : isna(At(out.data[c], j))

\* what the code does: only the rows dated on a month start are kept
C8_GridKeepsMonthStartRows ==
    GridDone =>
        LET in == df
            out == ret.panel
        IN  /\ out.index = date_range_MS(SetMin(SeqToSet(in.index)), SetMax(SeqToSet(in.index)))
            /\ \A i \in Pos(in.index) :
                   At(in.index, i) % SlotsPerMonth = 0 =>
                       \E j \in Pos(out.index) :
                           At(out.index, j) = At(in.index, i) /\ RowOf(out, j) = RowOf(in, i)
            /\ \A j \in Pos(out.index) :
                   At(out.index, j) \notin SeqToSet(in.index) =>
                       \A c \in ColSet(out) : isna(At(out.data[c], j))

(* ================== specification: missingness diagnostics ============ *)
(* missing_runs_by_series applied to a panel.                             *)

\* most rows of the exhaustively enumerated panels
MaxRunRows == 5

\* _coerce_datetime_index: sort by timestamp unless already ascending
_coerce_datetime_index(p) == IF IsMonotonic(p.index) THEN p ELSE sort_index(p)

\* df.loc[start:end] on a sorted index; -1 stands for None
LocWindow(p, start, end) ==
    IF start = -1 /\ end = -1 THEN p
    ELSE TakeRows(p, SortedSeq({i \in Pos(p.index) :
                                   /\ (start = -1 \/ At(p.index, i) >= start)
                                   /\ (end = -1 \/ At(p.index, i) <= end)}))

\* mutant of RunSplits: a single observed row does not end a run
RunSplits_Gap2(where) == {k \in 1 .. (Len(where) - 1) : where[k + 1] - where[k] > 2}

\* np.where(np.diff(where) > 1)[0] + 1: the numbers of leading entries of
\* where after which a new group starts
RunSplits(where) == {k \in 1 .. (Len(where) - 1) : where[k + 1] - where[k] > 1}

\* np.split(where, splits), each group given by its first and last entry
RunGroups(where) ==
    IF Len(where) = 0 THEN <<>>
    ELSE
    LET splits == RunSplits(where)
        firsts == SortedSeq({1} \cup {k + 1 : k \in splits})
        lasts  == SortedSeq(splits \cup {Len(where)})
    IN  [g \in 1 .. Len(firsts) |-> <<where[firsts[g]], where[lasts[g]]>>]

\* the rows appended for one series
SeriesRuns(idx, col, s) ==
    LET groups == RunGroups(SortedSeq(MissingPos(s)))
    IN  [g \in 1 .. Len(groups) |->
            [series |-> col,
             start  |-> At(idx, groups[g][1]),
             end    |-> At(idx, groups[g][2]),
             length |-> groups[g][2] - groups[g][1] + 1]]

RECURSIVE ConcatRuns(_, _)
\* the rows of the columns cols[k..], in column order
ConcatRuns(p, k) ==
    IF k > Len(p.columns) THEN <<>>
    ELSE SeriesRuns(p.index, p.columns[k], p.data[p.columns[k]]) \o ConcatRuns(p, k + 1)

missing_runs_by_series(p0, start, end) ==
    LET p == LocWindow(_coerce_datetime_index(p0), start, end)
    IN  [status |-> "ok", rows |-> ConcatRuns(p, 1)]

\* the mask [0,1,1,0,1,0,0,1,1,1] of the design's section 8 (1 = missing)
ExampleMask == <<0, 1, 1, 0, 1, 0, 0, 1, 1, 1>>

ExampleRunsPanel ==
    Panel2(1, [i \in 1 .. Len(ExampleMask) |-> IF ExampleMask[i] = 1 THEN NaN ELSE Present],
              [i \in 1 .. Len(ExampleMask) |-> Present])

\* the rows of a panel in reverse order (an index that is not ascending)
Reversed(p) == TakeRows(p, [k \in 1 .. NRows(p) |-> NRows(p) - k])

\* df is the example panel or some panel of at most MaxRunRows rows, with
\* its rows in ascending or in descending order of time
IsRunPanel(p) ==
    \/ p = ExampleRunsPanel
    \/ p = Reversed(ExampleRunsPanel)
    \/ \E n \in 0 .. MaxRunRows : \E a, b \in Masks(n) :
           p = Panel2(1, a, b) \/ p = Reversed(Panel2(1, a, b))

InitRuns ==
    /\ pc = "call"
    /\ ret = None
    /\ IsRunPanel(df)
    /\ args \in [start : {-1, MonthStart(2)}, end : {-1, MonthStart(3)}]

MissingRunsBySeries ==
    /\ pc = "call"
    /\ pc' = "runs"
    /\ ret' = missing_runs_by_series(df, args.start, args.end)
    /\ UNCHANGED <<df, args>>

NextRuns == MissingRunsBySeries

SpecRuns == InitRuns /\ [][NextRuns]_vars

\* the panel the reports are computed on
Analysed == LocWindow(_coerce_datetime_index(df), args.start, args.end)

\* the maximal contiguous missing spans of a series, as position pairs
MaximalSpans(s) ==
    {w \in Pos(s) \X Pos(s) :
        /\ w[1] <= w[2]
        /\ \A j \in w[1] .. w[2] : isna(At(s, j))
        /\ (w[1] = 0 \/ notna(At(s, w[1] - 1)))
        /\ (w[2] = Len(s) - 1 \/ notna(At(s, w[2] + 1)))}

\* position of a timestamp in an index without duplicates
PosOfTs(idx, t) == CHOOSE i \in Pos(idx) : At(idx, i) = t

\* the reported rows of one series, in report order, as
\* <<start position, end position, length>>
ReportedRuns(rows, idx, col) ==
    LET mine == SelectSeq(rows, LAMBDA r : r.series = col)
    IN  [g \in 1 .. Len(mine) |->
            <<PosOfTs(idx, mine[g].start), PosOfTs(idx, mine[g].end), mine[g].length>>]

\* C9: for every series the reported runs are exactly its maximal contiguous
\* missing spans, in ascending order, each with length = end position - start
\* position + 1; the example mask gives (1,2,2), (4,4,1), (7,9,3).
C9_RunsAreMaximalSpans ==
    pc = "runs" =>
        LET p == Analysed
        IN  /\ \A c \in ColSet(p) :
                LET runs == ReportedRuns(ret.rows, p.index, c)
                    s    == p.data[c]
                IN  /\ {<<runs[g][1], runs[g][2]>> : g \in 1 .. Len(runs)} = MaximalSpans(s)
                    /\ Len(runs) = Cardinality(MaximalSpans(s))
                    /\ \A g \in 1 .. Len(runs) : runs[g][3] = runs[g][2] - runs[g][1] + 1
                    /\ \A g \in 1 .. (Len(runs) - 1) : runs[g][2] + 1 < runs[g + 1][1]
                    /\ \A i \in MissingPos(s) : \E g \in 1 .. Len(runs) :
                           runs[g][1] <= i /\ i <= runs[g][2]
            /\ \A g \in 1 .. Len(ret.rows) : ret.rows[g].series \in ColSet(p)
            /\ (df = ExampleRunsPanel /\ args.start = -1 /\ args.end = -1) =>
                   ReportedRuns(ret.rows, p.index, "A")
                       = <<<<1, 2, 2>>, <<4, 4, 1>>, <<7, 9, 3>>>>

\* C9 witness: the runs of the example mask have been reported
C9_Witness ==
    /\ pc = "runs" /\ df = ExampleRunsPanel /\ args.start = -1 /\ args.end = -1
    /\ Len(ret.rows) = 3

(* ================ specification: prepare_panel_for_factors ============ *)

\* most rows of a raw panel
MaxBalRows == 3

\* df is some raw panel of at most MaxBalRows rows
IsBalPanel(p) ==
    \E n \in 0 .. MaxBalRows :
        \E a, b \in [1 .. n -> {NaN, Num(1), Num(2)}] : p = Panel2(1, a, b)

\* ddof is read only when standardize is set: it keeps its default otherwise
BalArgs ==
    {a \in [tcode_map   : {[A |-> 1, B |-> 1], [A |-> 2, B |-> 1]},
            balance     : {"none", "initial", "all", "rows"},
            standardize : BOOLEAN,
            ddof        : {0, 1}] : a.standardize \/ a.ddof = 0}

InitBalance ==
    /\ pc = "call"
    /\ ret = None
    /\ IsBalPanel(df)
    /\ args \in BalArgs

PreparePanelForFactors ==
    /\ pc = "call"
    /\ pc' = "done"
    /\ ret' = prepare_panel_for_factors(df, args.tcode_map, args.balance,
                                        args.standardize, args.ddof)
    /\ UNCHANGED <<df, args>>

NextBalance == PreparePanelForFactors

SpecBalance == InitBalance /\ [][NextBalance]_vars

BalDone == pc = "done" /\ ret.status = "ok"

\* the transformed panel the balancing starts from
Transformed == apply_tcode_transformations(df, args.tcode_map).panel

SomeColumnObserved(p) == \E c \in ColSet(p) : ValidPos(p.data[c]) # {}

NoMissing(p) == \A c \in ColSet(p) : MissingPos(p.data[c]) = {}

C6_DenseBlock ==
    (BalDone /\ args.balance = "all") => NoMissing(ret.panel)

\* the block before standardization
Block == prepare_panel_for_factors(df, args.tcode_map, args.balance, FALSE, args.ddof).panel

\* a column of the block without a usable standard deviation: it has no
\* more than ddof rows, or its computed variance is exactly zero
ZeroOrUndefinedStd(s) ==
    \/ Len(s) <= args.ddof
    \/ LET var == ColVar(s, args.ddof) IN var.k # "num" \/ var.v = 0

\* C6 (amended): with balance="all" the block before standardization has no
\* missing value; the returned panel has none when standardize=False, and
\* when standardize=True a column is entirely missing if its computed
\* standard deviation is zero or undefined and has no missing value otherwise.
C6_DenseBlockUnlessZeroStd ==
    (BalDone /\ args.balance = "all") =>
        LET b == Block
        IN  /\ NoMissing(b)
            /\ ~args.standardize => NoMissing(ret.panel)
            /\ args.standardize =>
                   \A c \in ColSet(ret.panel) :
                       IF ZeroOrUndefinedStd(b.data[c])
                       THEN ValidPos(ret.panel.data[c]) = {}
                       ELSE MissingPos(ret.panel.data[c]) = {}

\* C6 witness: a standardized dense block of two rows in which one column is
\* constant (entirely missing) and the other is not
C6_Witness ==
    /\ BalDone /\ args.balance = "all" /\ args.standardize
    /\ NRows(ret.panel) >= 2
    /\ \E c \in ColSet(ret.panel) : ValidPos(ret.panel.data[c]) = {}
    /\ \E c \in ColSet(ret.panel) : MissingPos(ret.panel.data[c]) = {}

(* ===================== specification: zero-row panels ================= *)
(* The stages that need at least one timestamp, each applied to a panel   *)
(* that may have no row, or no row left after anchoring.                   *)

\* most rows of a panel handed to the three stages
MaxEmptyRows == 2

InitEmpty ==
    /\ pc = "call"
    /\ ret = None
    /\ IsMaskPanel(df, MaxEmptyRows)
    /\ args \in VarArgs

EnsureMonthlyIndexOnPanel ==
    /\ pc = "call"
    /\ pc' = "indexed"
    /\ ret' = [out |-> ensure_monthly_index(df), written |-> {}]
    /\ UNCHANGED <<df, args>>

PickTrainingWindowOnPanel ==
    /\ pc = "call"
    /\ pc' = "picked"
    /\ ret' = [out     |-> pick_training_window(df, args.cov_thresh, args.train_years,
                                                args.holdout_months, args.min_run),
               written |-> {}]
    /\ UNCHANGED <<df, args>>

BuildVariantOnPanel ==
    /\ pc = "call"
    /\ pc' = "built"
    /\ ret' = [out |-> build_variant(df, args), written |-> ArtifactsWritten(df, args)]
    /\ UNCHANGED <<df, args>>

NextEmpty ==
    \/ EnsureMonthlyIndexOnPanel
    \/ PickTrainingWindowOnPanel
    \/ BuildVariantOnPanel

SpecEmpty == InitEmpty /\ [][NextEmpty]_vars

\* the anchor date is later than every row of the panel
AnchorAfterLastRow == \A i \in Pos(df.index) : At(df.index, i) < args.anchor_start

\* C19: on a zero-row panel ensure_monthly_index and pick_training_window
\* fail with an error instead of returning a result, and so does
\* build_variant when the anchor date is later than the panel's last row,
\* in which case it writes no variant CSV and no catalog.
C19_ZeroRowPanelFails ==
    /\ (pc = "indexed" /\ NRows(df) = 0) =>
            ret.out.status = "ValueError" /\ "panel" \notin DOMAIN ret.out
    /\ (pc = "picked" /\ NRows(df) = 0) =>
            ret.out.status = "ValueError" /\ "train_start" \notin DOMAIN ret.out
    /\ (pc = "built" /\ AnchorAfterLastRow) =>
            /\ ret.out.status = "ValueError"
            /\ "df_out" \notin DOMAIN ret.out
            /\ ret.written = {}

\* C19 witness: build_variant on a panel that has rows, all of them before
\* the anchor date
C19_Witness ==
    /\ pc = "built" /\ NRows(df) = MaxEmptyRows /\ AnchorAfterLastRow
    /\ ret.out.status = "ValueError" /\ ret.written = {}

\* the three stages return a result on the panels that keep a row
C19_NonEmptyPanelBuilds ==
    /\ pc = "built" /\ ~AnchorAfterLastRow
    /\ ret.out.status = "ok" /\ ret.written = VariantArtifacts

(* ===================== specification: standardization ================= *)
(* _zscore (factors.py) and standardize (tcode.py) applied to a panel.    *)

\* standardize of tcode.py: the same mean, std with zero replaced by NaN,
\* and (df - mu) / sigma as _zscore
standardize(p, ddof) ==
    LET stats(mu, sigma) ==
            [z     |-> [p EXCEPT !.data =
                          [c \in ColSet(p) |->
                              [i \in 1 .. NRows(p) |-> ZCell(p.data[c][i], mu[c], sigma[c])]]],
             mu    |-> mu,
             sigma |-> sigma]
    IN  Once(LAMBDA mu : Once(LAMBDA sigma : stats(mu, sigma),
                              [c \in ColSet(p) |-> ColSigma(p.data[c], ddof)]),
             [c \in ColSet(p) |-> ColMean(p.data[c])])

\* most rows of a standardized panel
MaxZRows == 3

\* the cells of a standardized panel: floats of no more than three
\* significand bits, or missing
ZCells == {NaN, Num(1), Num(6), Num(14)}

IsZPanel(p) ==
    \E n \in 0 .. MaxZRows : \E a, b \in [1 .. n -> ZCells] : p = Panel2(1, a, b)

InitZscore ==
    /\ pc = "call"
    /\ ret = None
    /\ IsZPanel(df)
    /\ args \in [ddof : {0, 1}]

ZScore ==
    /\ pc = "call"
    /\ pc' = "zscore"
    /\ ret' = _zscore(df, args.ddof)
    /\ UNCHANGED <<df, args>>

Standardize ==
    /\ pc = "call"
    /\ pc' = "standardize"
    /\ ret' = standardize(df, args.ddof)
    /\ UNCHANGED <<df, args>>

NextZscore == ZScore \/ Standardize

SpecZscore == InitZscore /\ [][NextZscore]_vars

ZDone == pc \in {"zscore", "standardize"}

\* the non-missing values of the series are all equal
Constant(s) == \A i, j \in ValidPos(s) : At(s, i) = At(s, j)

\* C20: a column whose non-missing values are all equal comes back entirely
\* missing with a missing standard deviation; every other column has a
\* standard deviation that is a number and comes back as (x - mean) / std at
\* its non-missing cells; no output value is infinite.
C20_ConstantColumnMissing ==
    ZDone =>
        \A c \in ColSet(df) :
            /\ \A i \in Pos(df.index) : At(ret.z.data[c], i).k # "inf"
            /\ IF Constant(df.data[c])
               THEN /\ ValidPos(ret.z.data[c]) = {}
                    /\ isna(ret.sigma[c])
               ELSE /\ ret.sigma[c].k = "sqrt"
                    /\ \A i \in Pos(df.index) :
                           At(ret.z.data[c], i) =
                               IF isna(At(df.data[c], i)) THEN NaN
                               ELSE [FlSub(At(df.data[c], i), ret.mu[c]) EXCEPT !.k = "z"]

\* what holds instead: a column comes back entirely missing, with a
\* missing standard deviation, exactly when its computed variance is
\* undefined or exactly zero, and a constant column of two or more values
\* whose computed mean is not the value itself is not one of them
C20_ZeroComputedVariance ==
    ZDone =>
        \A c \in ColSet(df) :
            LET var == ColVar(df.data[c], args.ddof)
            IN  /\ (var.k # "num" \/ var.v = 0) <=> isna(ret.sigma[c])
                /\ isna(ret.sigma[c]) => ValidPos(ret.z.data[c]) = {}
                /\ ~isna(ret.sigma[c]) => ValidPos(ret.z.data[c]) = ValidPos(df.data[c])
                /\ (Constant(df.data[c]) /\ ~isna(ret.sigma[c])) =>
                        \E i \in ValidPos(df.data[c]) : ret.mu[c] # At(df.data[c], i)

\* a constant column with an exact mean is returned entirely missing
C20_ExactConstantColumn ==
    /\ ZDone /\ NRows(df) = MaxZRows
    /\ Constant(df.data["A"]) /\ ValidPos(df.data["A"]) = Pos(df.index)
    /\ ValidPos(ret.z.data["A"]) = {} /\ isna(ret.sigma["A"])

(* ================= specification: boundary missingness ================ *)
(* compute_missingness_by_series applied to a panel and three optionally  *)
(* requested boundary dates.                                               *)

\* first_date / second_date / last_date = None
NoDate == [given |-> FALSE, ok |-> TRUE, m |-> 0, d |-> 1]

\* a date string "mm/dd/yyyy" naming slot d of month m
DateText(m, d) == [given |-> TRUE, ok |-> TRUE, m |-> m, d |-> d]

\* a string that does not match date_format
BadDateText == [given |-> TRUE, ok |-> FALSE, m |-> 0, d |-> 1]

\* pd.to_datetime(s, format=date_format) of a well-formed string
_parse(s) == MonthStart(s.m) + (s.d - 1)

\* cand in idx
InIndex(idx, t) == \E i \in Pos(idx) : At(idx, i) = t

\* mutant of SecondDefault: the first row stands in for the second boundary
SecondDefault_FirstRow(idx) == At(idx, 0)

\* second = idx[1] if len(idx) > 1 else idx[0]
SecondDefault(idx) == IF Len(idx) > 1 THEN At(idx, 1) ELSE At(idx, 0)

_resolve_boundaries(idx, first_date, second_date, last_date) ==
    IF Len(idx) = 0 THEN [status |-> "IndexError"]
    ELSE IF \E s \in {first_date, second_date, last_date} : s.given /\ ~s.ok
    THEN [status |-> "ValueError"]
    ELSE
    LET first0  == At(idx, 0)
        last0   == At(idx, Len(idx) - 1)
        second0 == SecondDefault(idx)
        absent(s)        == s.given /\ ~InIndex(idx, _parse(s))
        pick(s, default) == IF s.given /\ InIndex(idx, _parse(s)) THEN _parse(s) ELSE default
        note(which, s, default) ==
            IF absent(s)
            THEN <<[boundary |-> which, requested |-> _parse(s), using |-> default]>>
            ELSE <<>>
    IN  [status |-> "ok",
         first  |-> pick(first_date, first0),
         second |-> pick(second_date, second0),
         last   |-> pick(last_date, last0),
         notes  |-> note("first", first_date, first0)
                    \o note("second", second_date, second0)
                    \o note("last", last_date, last0)]

\* mutant of MidRows: the last boundary row is counted as intermediate too
MidRows_UpToLast(idx, second, last) ==
    IF Len(idx) >= 3 THEN {i \in Pos(idx) : At(idx, i) > second /\ At(idx, i) <= last}
    ELSE {}

\* mask_mid: the rows strictly between bounds.second and bounds.last
MidRows(idx, second, last) ==
    IF Len(idx) >= 3 THEN {i \in Pos(idx) : At(idx, i) > second /\ At(idx, i) < last}
    ELSE {}

\* the panel's index has no repeated timestamp
compute_missingness_by_series(p0, first_date, second_date, last_date) ==
    LET p      == _coerce_datetime_index(p0)
        idx    == p.index
        bounds == _resolve_boundaries(idx, first_date, second_date, last_date)
    IN  IF bounds.status # "ok" THEN [status |-> bounds.status]
        ELSE
        LET na(c, i)   == isna(At(p.data[c], i))
            row(ts)    == CHOOSE i \in Pos(idx) : At(idx, i) = ts
            mid        == MidRows(idx, bounds.second, bounds.last)
            n_rows     == Len(idx)
            by_series  ==
                [c \in ColSet(p) |->
                    LET n_missing == Cardinality(MissingPos(p.data[c]))
                        n_mid     == Cardinality({i \in mid : na(c, i)})
                    IN  [n_rows                 |-> n_rows,
                         n_missing              |-> n_missing,
                         pct_missing            |-> <<100 * n_missing, n_rows>>,
                         miss_first             |-> na(c, row(bounds.first)),
                         miss_second            |-> na(c, row(bounds.second)),
                         miss_both_first_two    |->
                             na(c, row(bounds.first)) /\ na(c, row(bounds.second)),
                         miss_any_first_two     |->
                             na(c, row(bounds.first)) \/ na(c, row(bounds.second)),
                         miss_intermediate      |-> n_mid > 0,
                         n_missing_intermediate |-> n_mid,
                         miss_last              |-> na(c, row(bounds.last))]]
        IN  [status    |-> "ok",
             by_series |-> by_series,
             summary   |->
                 [n_series   |-> NCols(p),
                  n_rows     |-> n_rows,
                  boundaries |-> [first  |-> bounds.first,
                                  second |-> bounds.second,
                                  last   |-> bounds.last,
                                  notes  |-> bounds.notes],
                  lists      |->
                      [series_missing_at_first  |->
                           {c \in ColSet(p) : by_series[c].miss_first},
                       series_missing_at_second |->
                           {c \in ColSet(p) : by_series[c].miss_second},
                       series_missing_any_intermediate |->
                           {c \in ColSet(p) : by_series[c].miss_intermediate},
                       series_missing_at_last   |->
                           {c \in ColSet(p) : by_series[c].miss_last}]]]

\* most rows of a panel handed to compute_missingness_by_series
MaxBoundRows == 4

\* the panels: up to MaxBoundRows monthly rows from month 1 on, in ascending
\* or in descending order of time
IsBoundPanel(p) ==
    \E n \in 0 .. MaxBoundRows : \E a, b \in Masks(n) :
        p = Panel2(1, a, b) \/ p = Reversed(Panel2(1, a, b))

\* a requested date: none, a month before the panel, the panel's second
\* month, the middle of its second month, a malformed string
DateChoices ==
    {NoDate, DateText(0, 1), DateText(2, 1), DateText(2, 2), BadDateText}

InitBoundary ==
    /\ pc = "call"
    /\ ret = None
    /\ IsBoundPanel(df)
    /\ args \in [first_date : DateChoices, second_date : DateChoices, last_date : DateChoices]

ComputeMissingnessBySeries ==
    /\ pc = "call"
    /\ pc' = "summary"
    /\ ret' = compute_missingness_by_series(df, args.first_date, args.second_date,
                                            args.last_date)
    /\ UNCHANGED <<df, args>>

NextBoundary == ComputeMissingnessBySeries

SpecBoundary == InitBoundary /\ [][NextBoundary]_vars

BoundaryDone == pc = "summary" /\ ret.status = "ok"

\* the rows of the panel in time order
SortedIndex == _coerce_datetime_index(df).index

\* the requested date s was given and is a timestamp of the panel
Requested(s) == s.given /\ InIndex(SortedIndex, _parse(s))

\* the requested date s was given and is no timestamp of the panel
NotInIndex(s) == s.given /\ ~InIndex(SortedIndex, _parse(s))

\* the summary's notes hold a fallback note for the boundary `which`
Noted(which) ==
    \E i \in 1 .. Len(ret.summary.boundaries.notes) :
        ret.summary.boundaries.notes[i].boundary = which

\* the boundary `got` answers the request s whose positional default is `row`
BoundaryHonoured(which, s, got, row) ==
    /\ Requested(s) => got = _parse(s)
    /\ NotInIndex(s) => got = row /\ Noted(which)

(* C21: when compute_missingness_by_series returns, each of the three     *)
(* boundaries is the requested date if that date is a timestamp of the    *)
(* panel; if the requested date is absent the boundary is the positional  *)
(* default (first row, second row - the only row of a one-row panel -,    *)
(* last row) and the notes record the fallback; the notes are empty       *)
(* exactly when no requested date was absent.                             *)
C21_RequestedOrPositional ==
    BoundaryDone =>
        LET b   == ret.summary.boundaries
            idx == SortedIndex
            n   == Len(idx)
        IN  /\ BoundaryHonoured("first", args.first_date, b.first, At(idx, 0))
            /\ BoundaryHonoured("second", args.second_date, b.second,
                                At(idx, IF n > 1 THEN 1 ELSE 0))
            /\ BoundaryHonoured("last", args.last_date, b.last, At(idx, n - 1))
            /\ (b.notes = <<>>) <=>
                   ~(NotInIndex(args.first_date) \/ NotInIndex(args.second_date)
                        \/ NotInIndex(args.last_date))

\* a present first date, an absent second date on a panel of several rows
C21_Witness ==
    /\ BoundaryDone
    /\ Len(SortedIndex) >= 3
    /\ Requested(args.first_date)
    /\ ret.summary.boundaries.first # At(SortedIndex, 0)
    /\ NotInIndex(args.second_date)
    /\ ret.summary.boundaries.second = At(SortedIndex, 1)
    /\ ~args.last_date.given
    /\ Len(ret.summary.boundaries.notes) = 1

\* the Iverson bracket [b]
Indicator(b) == IF b THEN 1 ELSE 0

\* no boundary date was requested
DefaultBoundaries ==
    ~args.first_date.given /\ ~args.second_date.given /\ ~args.last_date.given

(* C30: with the positional boundaries, on a panel of at least three rows *)
(* with distinct timestamps, every series has n_missing = [miss_first] +  *)
(* [miss_second] + n_missing_intermediate + [miss_last].                  *)
C30_BoundaryRowsPartition ==
    (BoundaryDone /\ DefaultBoundaries /\ Len(df.index) >= 3) =>
        \A c \in DOMAIN ret.by_series :
            LET r == ret.by_series[c]
            IN  r.n_missing = Indicator(r.miss_first) + Indicator(r.miss_second)
                                + r.n_missing_intermediate + Indicator(r.miss_last)

\* a series missing at every kind of row of a four-row panel
C30_Witness ==
    /\ BoundaryDone
    /\ DefaultBoundaries
    /\ Len(df.index) >= 4
    /\ \E c \in DOMAIN ret.by_series :
            LET r == ret.by_series[c]
            IN  /\ r.miss_first /\ r.miss_second /\ r.miss_last
                /\ r.n_missing_intermediate >= 1
                /\ r.n_missing = 3 + r.n_missing_intermediate
    /\ \E c \in DOMAIN ret.by_series : ret.by_series[c].n_missing = 0

(* ================= specification: the three reports =================== *)
(* compute_missingness_by_series, missing_positions_by_series and         *)
(* missing_runs_by_series applied, in any order, to one panel.            *)

\* pd.NaT
NaT == -1

\* mutant of _runs_from_mask: all the missing rows form one run
_runs_from_mask_Whole(where) ==
    IF Len(where) = 0 THEN <<>> ELSE <<<<where[1], where[Len(where)]>>>>

\* _runs_from_mask of missing_positions_by_series, on np.flatnonzero(mask)
_runs_from_mask(where) ==
    IF Len(where) = 0 THEN <<>>
    ELSE
    LET splits == {k \in 1 .. (Len(where) - 1) : where[k + 1] - where[k] > 1}
        firsts == SortedSeq({1} \cup {k + 1 : k \in splits})
        lasts  == SortedSeq(splits \cup {Len(where)})
    IN  [g \in 1 .. Len(firsts) |-> <<where[firsts[g]], where[lasts[g]]>>]

\* pos[:limit_positions]; -1 stands for None
CapPositions(pos, limit_positions) ==
    IF limit_positions # -1 /\ Len(pos) > limit_positions
    THEN SubSeq(pos, 1, limit_positions)
    ELSE pos

\* as_strings = False
missing_positions_by_series(p0, start, end, limit_positions) ==
    LET p      == LocWindow(_coerce_datetime_index(p0), start, end)
        idx    == p.index
        n_rows == Len(idx)
    IN  [status    |-> "ok",
         summary   |->
             [c \in ColSet(p) |->
                 LET where == SortedSeq(MissingPos(p.data[c]))
                     runs  == _runs_from_mask(where)
                     any   == Len(where) > 0
                 IN  [n_rows        |-> n_rows,
                      n_missing     |-> Cardinality(MissingPos(p.data[c])),
                      pct_missing   |-> <<100 * Cardinality(MissingPos(p.data[c])), n_rows>>,
                      first_missing |-> IF any THEN At(idx, where[1]) ELSE NaT,
                      last_missing  |-> IF any THEN At(idx, where[Len(where)]) ELSE NaT,
                      n_runs        |-> IF any THEN Len(runs) ELSE 0,
                      longest_run   |->
                          IF any
                          THEN SetMax({runs[g][2] - runs[g][1] + 1 : g \in 1 .. Len(runs)})
                          ELSE 0]],
         positions |->
             [c \in ColSet(p) |->
                 LET where == SortedSeq(MissingPos(p.data[c]))
                 IN  CapPositions([k \in 1 .. Len(where) |-> At(idx, where[k])],
                                  limit_positions)]]

\* most rows of a panel handed to the three reports
MaxRepRows == 4

\* the panels: up to MaxRepRows monthly rows, ascending or descending in time
IsRepPanel(p) ==
    \E n \in 0 .. MaxRepRows : \E a, b \in Masks(n) :
        p = Panel2(1, a, b) \/ p = Reversed(Panel2(1, a, b))

InitReports ==
    /\ pc = "call"
    /\ ret = [boundary |-> None, positions |-> None, runs |-> None]
    /\ IsRepPanel(df)
    /\ args \in [start : {-1, MonthStart(2)}, end : {-1, MonthStart(3)},
                  limit_positions : {-1, 1}]

\* pc after a report has been added: "reports" once all three are there
AfterReport(r) ==
    IF r.boundary # None /\ r.positions # None /\ r.runs # None THEN "reports" ELSE "call"

BoundaryReport ==
    /\ pc = "call"
    /\ ret.boundary = None
    /\ ret' = [ret EXCEPT !.boundary =
                   compute_missingness_by_series(df, NoDate, NoDate, NoDate)]
    /\ pc' = AfterReport(ret')
    /\ UNCHANGED <<df, args>>

PositionsReport ==
    /\ pc = "call"
    /\ ret.positions = None
    /\ ret' = [ret EXCEPT !.positions =
                   missing_positions_by_series(df, args.start, args.end,
                                               args.limit_positions)]
    /\ pc' = AfterReport(ret')
    /\ UNCHANGED <<df, args>>

RunsReport ==
    /\ pc = "call"
    /\ ret.runs = None
    /\ ret' = [ret EXCEPT !.runs = missing_runs_by_series(df, args.start, args.end)]
    /\ pc' = AfterReport(ret')
    /\ UNCHANGED <<df, args>>

NextReports == BoundaryReport \/ PositionsReport \/ RunsReport

SpecReports == InitReports /\ [][NextReports]_vars

\* the rows of the runs table that belong to series c
RunsOf(c) == SelectSeq(ret.runs.rows, LAMBDA r : r.series = c)

RECURSIVE SumLengths(_, _)
\* the sum of the lengths of rows[k..]
SumLengths(rows, k) == IF k > Len(rows) THEN 0 ELSE rows[k].length + SumLengths(rows, k + 1)

\* no start/end window was asked of the positions and runs reports
WholePanel == args.start = -1 /\ args.end = -1

(* C22: once the three reports are computed on a panel, for every series  *)
(* the positions summary and the runs table (same window) agree: n_missing*)
(* is the sum of the run lengths, n_runs and longest_run are the number   *)
(* and the greatest length of the series' runs, first_missing and         *)
(* last_missing are the start of its first and the end of its last run;   *)
(* the uncapped positions list has n_missing entries; and on the whole    *)
(* panel n_missing of the boundary summary is the same number.            *)
C22_ReportsAgree ==
    (pc = "reports" /\ ret.boundary.status = "ok") =>
        \A c \in DOMAIN ret.positions.summary :
            LET s    == ret.positions.summary[c]
                runs == RunsOf(c)
            IN  /\ WholePanel => ret.boundary.by_series[c].n_missing = s.n_missing
                /\ args.limit_positions = -1 => Len(ret.positions.positions[c]) = s.n_missing
                /\ s.n_missing = SumLengths(runs, 1)
                /\ s.n_runs = Len(runs)
                /\ s.longest_run = SetMax({0} \cup {runs[g].length : g \in 1 .. Len(runs)})
                /\ Len(runs) > 0 =>
                       /\ s.first_missing = runs[1].start
                       /\ s.last_missing = runs[Len(runs)].end

\* a series with two runs of different lengths on the whole panel
C22_Witness ==
    /\ pc = "reports"
    /\ ret.boundary.status = "ok"
    /\ WholePanel
    /\ args.limit_positions = -1
    /\ \E c \in DOMAIN ret.positions.summary :
            /\ ret.positions.summary[c].n_runs = 2
            /\ ret.positions.summary[c].longest_run = 2
            /\ ret.positions.summary[c].n_missing = 3
            /\ ret.boundary.by_series[c].n_missing = 3
            /\ Len(ret.positions.positions[c]) = 3

(* ================= further properties of build_variant ================ *)

\* the timestamps of the input panel at or after the anchor, in input order
RowsFromAnchor == SelectSeq(df.index, LAMBDA t : t >= args.anchor_start)

\* the input columns that have no entry among the dropped series, in input order
ColumnsNotDropped == SelectSeq(df.columns, LAMBDA c : c \notin DOMAIN ret.dropped_series)

\* C23: the survivor panel has exactly the input rows dated at or after the
\* anchor (the anchor row included, rows outside the training window too)
\* and exactly the kept columns in input order, each cell as in the input;
\* n_rows and n_series of the catalog are its row and column counts and
\* kept_series lists its columns.
C23_SurvivorPanelShape ==
    VarDone =>
        /\ ret.df_out.index = RowsFromAnchor
        /\ ret.df_out.columns = ColumnsNotDropped
        /\ ret.kept_series = ret.df_out.columns
        /\ ret.n_rows = Len(RowsFromAnchor)
        /\ ret.n_series = Len(ColumnsNotDropped)
        /\ \A c \in SeqToSet(ret.kept_series) :
               /\ Len(ret.df_out.data[c]) = Len(RowsFromAnchor)
               /\ \A k \in 1 .. Len(RowsFromAnchor) :
                      ret.df_out.data[c][k]
                          = At(df.data[c], PosOfTs(df.index, RowsFromAnchor[k]))

\* C23 witness: the anchor is the second input row, the training window ends
\* before the last row, one series is kept and one is dropped
C23_Witness ==
    /\ VarDone
    /\ NRows(df) = MaxVarRows
    /\ args.anchor_start = At(df.index, 1)
    /\ At(ret.df_out.index, 0) = args.anchor_start
    /\ ret.n_rows = MaxVarRows - 1
    /\ ret.train_window[2] < At(df.index, NRows(df) - 1)
    /\ At(ret.df_out.index, ret.n_rows - 1) = At(df.index, NRows(df) - 1)
    /\ ret.n_series = 1
    /\ Cardinality(DOMAIN ret.dropped_series) = 1

\* the panel with its columns in the opposite order
ColumnsReversed(p) ==
    [p EXCEPT !.columns = [k \in 1 .. Len(p.columns) |-> p.columns[Len(p.columns) + 1 - k]]]

\* C24: build_variant on the panel with its columns permuted fails or
\* succeeds as on the panel itself and, when it succeeds, gives the same
\* training window, the same set of kept series, and the same drop reason
\* and diagnostics for every dropped series.
C24_ColumnOrderIrrelevant ==
    pc = "done" =>
        LET other == build_variant(ColumnsReversed(df), args)
        IN  /\ other.status = ret.status
            /\ ret.status = "ok" =>
                   /\ other.train_window = ret.train_window
                   /\ SeqToSet(other.kept_series) = SeqToSet(ret.kept_series)
                   /\ other.dropped_series = ret.dropped_series

\* C24 witness: the two series differ, one is kept and one is dropped, and
\* the permuted panel has another first column
C24_Witness ==
    /\ VarDone
    /\ df.data["A"] # df.data["B"]
    /\ ColumnsReversed(df).columns[1] # df.columns[1]
    /\ ret.kept_series = <<"B">>
    /\ DOMAIN ret.dropped_series = {"A"}
    /\ build_variant(ColumnsReversed(df), args).kept_series = <<"B">>
    /\ ret.train_window[1] > At(Anchored(df, args.anchor_start).index, 0)

(* ================= specification: the column rules ==================== *)
(* The loop body of build_variant applied to one column of an anchored    *)
(* panel, for a given training window and given limits.                   *)

\* most rows of the anchored panel
MaxRuleRows == 5

\* the anchored panels: series A over {NaN, Present}, series B complete
IsRulePanel(p) ==
    \E n \in 1 .. MaxRuleRows : \E a \in Masks(n) :
        p = Panel2(1, a, [i \in 1 .. n |-> Present])

RuleArgs ==
    [anchor_start            : {MonthStart(0), MonthStart(1)},
     train_start             : {MonthStart(1), MonthStart(2)},
     train_end               : {MonthStart(3), MonthStart(MaxRuleRows)},
     miss_share_max          : {MISS_SHARE_MAX_DEFAULT},
     lead_limit_months       : {0, 1},
     interior_gap_max_months : {0, 1},
     min_obs_train_months    : {1, 2}]

InitRules ==
    /\ pc = "call"
    /\ ret = None
    /\ IsRulePanel(df)
    /\ args \in RuleArgs

ApplyColumnRules ==
    /\ pc = "call"
    /\ pc' = "decided"
    /\ ret' = ColumnDecision(df, "A", args.anchor_start, args.train_start,
                             args.train_end, args)
    /\ UNCHANGED <<df, args>>

NextRules == ApplyColumnRules

SpecRules == InitRules /\ [][NextRules]_vars

\* the series the rules are applied to
RuleSeries == df.data["A"]

\* its share of missing rows, as a fraction
ShareMissing == <<Cardinality({i \in Pos(RuleSeries) : isna(At(RuleSeries, i))}), Len(RuleSeries)>>

\* its observed rows inside the training window
ObservedInTrain ==
    Cardinality({i \in Pos(RuleSeries) :
                    /\ notna(At(RuleSeries, i))
                    /\ At(df.index, i) >= args.train_start
                    /\ At(df.index, i) <= args.train_end})

\* C28: a column is dropped exactly when its missing share is > the
\* maximum, or its leading NaN count is > the limit, or its interior gap is
\* > the maximum, or its training observations are < the minimum; a value
\* equal to its limit does not drop the column.
C28_StrictComparisons ==
    pc = "decided" =>
        /\ ret.missing_share = ShareMissing
        /\ ret.nobs_train = ObservedInTrain
        /\ ret.drop_reason # "" <=>
               \/ ShareMissing[1] * args.miss_share_max[2]
                      > args.miss_share_max[1] * ShareMissing[2]
               \/ ret.leading_na_since_anchor > args.lead_limit_months
               \/ ret.interior_gap_months > args.interior_gap_max_months
               \/ ObservedInTrain < args.min_obs_train_months

\* C28 witness: all four values sit exactly on their limits and the column
\* is kept
C28_Witness ==
    /\ pc = "decided"
    /\ ShareMissing[1] * args.miss_share_max[2] = args.miss_share_max[1] * ShareMissing[2]
    /\ ShareMissing[1] > 0
    /\ ret.leading_na_since_anchor = args.lead_limit_months
    /\ ret.leading_na_since_anchor = 1
    /\ ret.interior_gap_months = args.interior_gap_max_months
    /\ ret.interior_gap_months = 1
    /\ ret.nobs_train = args.min_obs_train_months
    /\ ret.drop_reason = ""

(* ================= specification: interior_max_gap ==================== *)
(* interior_max_gap applied to one series of an anchored monthly panel.   *)

\* longest series tried
MaxGapRows == 6

\* the cells of the series
GapCells == {NaN, Present, PInf}

InitGap ==
    /\ pc = "call"
    /\ ret = None
    /\ args = None
    /\ \E n \in 0 .. MaxGapRows : df \in [1 .. n -> GapCells]

InteriorMaxGap ==
    /\ pc = "call"
    /\ pc' = "gap"
    /\ ret' = [status |-> "ok", gap |-> interior_max_gap(df)]
    /\ UNCHANGED <<df, args>>

NextGap == InteriorMaxGap

SpecGap == InitGap /\ [][NextGap]_vars

\* the maximal missing spans of the series that lie strictly between its
\* first and its last valid observation, as <<first row, last row>>
InteriorSpans ==
    {w \in MaximalSpans(df) :
        /\ \E i \in ValidPos(df) : i < w[1]
        /\ \E i \in ValidPos(df) : i > w[2]}

\* C25: interior_max_gap returns the length of the longest run of
\* consecutive missing months strictly between the first and the last
\* valid observation, 0 when there is none (leading and trailing missing
\* months are never counted), and the number of rows when the series has
\* no valid observation.
C25_LongestInteriorRun ==
    pc = "gap" =>
        ret.gap = IF ValidPos(df) = {} THEN Len(df)
                  ELSE SetMax({0} \cup {w[2] - w[1] + 1 : w \in InteriorSpans})

\* C25 witness: two leading and one trailing missing months around an
\* interior gap of one month
C25_Witness ==
    /\ pc = "gap"
    /\ Len(df) >= 6
    /\ isna(At(df, 0)) /\ isna(At(df, 1))
    /\ isna(At(df, Len(df) - 1))
    /\ Cardinality(InteriorSpans) = 1
    /\ ret.gap = 1

(* ============== further properties of pick_training_window ============ *)

\* the months of the panel inside the returned window, both ends included
WindowMonths ==
    {i \in Pos(df.index) :
        At(df.index, i) >= ret.train_start /\ At(df.index, i) <= ret.train_end}

\* C29: for min_run >= 1, holdout_months >= 0 and train_years >= 1 the
\* returned window never has more than max(12 * train_years, min_run)
\* months.
C29_WindowLengthBounded ==
    (WinDone /\ args.min_run >= 1 /\ args.holdout_months >= 0 /\ args.train_years >= 1) =>
        Cardinality(WindowMonths) <= Max2(12 * args.train_years, args.min_run)

\* C29 witness: a panel longer than a year whose window is cut to twelve
\* months although more months qualify before it
C29_Witness ==
    /\ WinDone
    /\ NRows(df) > 12
    /\ args.train_years = 1
    /\ Cardinality(WindowMonths) = 12
    /\ ret.first_ok < ret.train_start

(* ================= specification: detect_tcode_row ==================== *)
(* detect_tcode_row applied to a FRED-MD style CSV file: a header line    *)
(* and the lines after it, every field read as text.                      *)

\* the header of the files
CsvHeader == <<DATE_COL_DEFAULT, "A", "B">>

\* the fields of one line that are not under date_col:
\* row.drop(labels=[date_col], errors="ignore")
DropDate(header, line, date_col) ==
    LET keep == SortedSeq({j \in 1 .. Len(header) : header[j] # date_col})
    IN  [k \in 1 .. Len(keep) |-> line[keep[k]]]

\* nums.astype(int) on one finite value: truncation toward zero
AsInt(c) == IF c.v >= 0 THEN c.v \div c.d ELSE -((-c.v) \div c.d)

\* the body of the scanning loop: line qualifies as the t-code row
IsTcodeLine(header, line, date_col) ==
    LET nums == to_numeric(DropDate(header, line, date_col))
    IN  /\ \A j \in 1 .. Len(nums) : notna(nums[j])
        /\ \A j \in 1 .. Len(nums) : nums[j].k # "inf"
        /\ {AsInt(nums[j]) : j \in 1 .. Len(nums)} \subseteq ALLOWED_TCODES

\* detect_tcode_row returns None
NoRow == -1

detect_tcode_row(csv, date_col, max_scan_rows) ==
    LET block == SubSeq(csv.lines, 1, Min2(max_scan_rows, Len(csv.lines)))
        hits  == {i \in 1 .. Len(block) : IsTcodeLine(csv.header, block[i], date_col)}
    IN  IF hits = {} THEN NoRow ELSE SetMin(hits)

\* most lines after the header
MaxCsvLines == 2

\* the text of a field: "1", "7", "1.5", "8", a word, nothing
CsvFields == {Num(1), Num(7), Frac(3, 2), Num(8), Junk, NaN}

\* the files: a word under the date column of every line, then two fields
IsCsvFile(csv) ==
    \E n \in 0 .. MaxCsvLines :
        \E lines \in [1 .. n -> {<<Junk, a, b>> : a, b \in CsvFields}] :
            csv = [header |-> CsvHeader, lines |-> lines]

InitDetect ==
    /\ pc = "call"
    /\ ret = None
    /\ IsCsvFile(df)
    /\ args \in [date_col : {DATE_COL_DEFAULT, "date"}, max_scan_rows : 1 .. MaxCsvLines]

DetectTcodeRow ==
    /\ pc = "call"
    /\ pc' = "detected"
    /\ ret' = [status |-> "ok", row |-> detect_tcode_row(df, args.date_col, args.max_scan_rows)]
    /\ UNCHANGED <<df, args>>

NextDetect == DetectTcodeRow

SpecDetect == InitDetect /\ [][NextDetect]_vars

\* the field is the text of an integer from 1 to 7
IntegerCode(c) == c.k = "num" /\ c.d = 1 /\ c.v \in 1 .. 7

\* file row r (the header being row 0) is among the scanned rows and all its
\* fields outside the date column are integers from 1 to 7
AllIntegerCodes(r) ==
    /\ r \in 1 .. Min2(args.max_scan_rows, Len(df.lines))
    /\ \A j \in 1 .. Len(df.header) :
           df.header[j] # args.date_col => IntegerCode(df.lines[r][j])

\* C26 (as claimed): detect_tcode_row returns the first scanned row whose
\* non-date entries are all integers in 1..7, and None when no scanned row
\* is such; a row holding 1.5, a value outside 1..7, a word or an empty
\* field is never returned.
C26_FirstAllIntegerRow ==
    pc = "detected" =>
        IF \E r \in 1 .. Len(df.lines) : AllIntegerCodes(r)
        THEN AllIntegerCodes(ret.row)
             /\ \A r \in 1 .. (ret.row - 1) : ~AllIntegerCodes(r)
        ELSE ret.row = NoRow

\* what holds instead: the row returned is the first scanned row whose
\* non-date fields are all numbers that truncate to an integer in 1..7
C26_FirstRowTruncatingToCodes ==
    pc = "detected" =>
        LET ok(r) ==
                /\ r \in 1 .. Min2(args.max_scan_rows, Len(df.lines))
                /\ \A j \in 1 .. Len(df.header) :
                       df.header[j] # args.date_col =>
                           /\ df.lines[r][j].k = "num"
                           /\ AsInt(df.lines[r][j]) \in 1 .. 7
        IN  IF \E r \in 1 .. Len(df.lines) : ok(r)
            THEN ok(ret.row) /\ \A r \in 1 .. (ret.row - 1) : ~ok(r)
            ELSE ret.row = NoRow

(* ================= specification: extract_tcodes_to_json ============== *)
(* Calls of extract_tcodes_to_json, one after the other, on the same      *)
(* out_json_path. A file is <<>> when absent and <<content>> when present.*)

\* read_embedded_tcode_map: the codes of file row tcode_row, for the fields
\* that are numbers truncating to an allowed code
read_embedded_tcode_map(csv, date_col, tcode_row) ==
    IF tcode_row < 1 \/ tcode_row > Len(csv.lines) THEN [status |-> "IndexError"]
    ELSE
    LET line   == csv.lines[tcode_row]
        series == [j \in {j \in 1 .. Len(csv.header) : csv.header[j] # date_col} |->
                      to_numeric(<<line[j]>>)[1]]
        coded  == {j \in DOMAIN series :
                      notna(series[j]) /\ AsInt(series[j]) \in ALLOWED_TCODES}
    IN  [status |-> "ok",
         map    |-> [k \in {csv.header[j] : j \in coded} |->
                        AsInt(series[CHOOSE j \in coded : csv.header[j] = k])]]

validate_tcode_map_against_columns(df_columns, tcode_map, date_col, require_all) ==
    LET cols    == SelectSeq(df_columns, LAMBDA c : c # date_col)
        cleaned == [k \in {k \in DOMAIN tcode_map :
                              k \in SeqToSet(cols) /\ tcode_map[k] \in ALLOWED_TCODES} |->
                       tcode_map[k]]
        missing == SelectSeq(cols, LAMBDA c : c \notin DOMAIN cleaned)
        extra   == {k \in DOMAIN tcode_map : k \notin SeqToSet(cols) /\ k # date_col}
    IN  IF require_all /\ missing # <<>> THEN [status |-> "KeyError"]
        ELSE [status |-> "ok", cleaned |-> cleaned,
              check |-> [missing_in_tcodes |-> missing, extra_in_tcodes |-> extra]]

\* mutant of OverwriteRefused: an existing mapping is always replaced
OverwriteRefused_Never(fs, overwrite) == FALSE

\* out_json_path.exists() and not overwrite
OverwriteRefused(fs, overwrite) == fs.mapping # <<>> /\ ~overwrite

\* the outcome of one call on the files fs: the status, the files after the
\* call, and the returned map
extract_tcodes_to_json(fs, csv, a) ==
    IF a.date_col \notin SeqToSet(csv.header)
    THEN [status |-> "ValueError", fs |-> fs]
    ELSE
    LET detected  == IF a.tcode_row # NoRow THEN a.tcode_row
                     ELSE IF a.autodetect_tcode_row
                          THEN detect_tcode_row(csv, a.date_col, 5)
                          ELSE NoRow
        tcode_row == IF detected = NoRow THEN 1 ELSE detected
        raw       == read_embedded_tcode_map(csv, a.date_col, tcode_row)
    IN  IF raw.status # "ok" THEN [status |-> raw.status, fs |-> fs]
        ELSE
        LET v == validate_tcode_map_against_columns(csv.header, raw.map, a.date_col,
                                                    a.require_all_tcodes)
        IN  IF v.status # "ok" THEN [status |-> v.status, fs |-> fs]
            ELSE IF OverwriteRefused(fs, a.overwrite)
            THEN [status |-> "FileExistsError", fs |-> fs]
            ELSE
            LET info == [tcode_row         |-> tcode_row,
                         n_series          |-> Cardinality(DOMAIN v.cleaned),
                         missing_in_tcodes |-> v.check.missing_in_tcodes,
                         extra_in_tcodes   |-> v.check.extra_in_tcodes]
            IN  [status    |-> "ok",
                 tcode_map |-> v.cleaned,
                 fs        |-> [mapping |-> <<v.cleaned>>,
                                sidecar |-> IF a.write_sidecar_metadata THEN <<info>>
                                            ELSE fs.sidecar]]

\* the text of a field of the t-code row: "1", "5", nothing
ExtractFields == {Num(1), Num(5), NaN}

\* the CSV files: the header, a t-code row and one row of data
ExtractCsvs ==
    {[header |-> CsvHeader, lines |-> <<<<Junk, a, b>>, <<Junk, Num(8), NaN>>>>] :
        a, b \in ExtractFields}

ExtractArgs ==
    [date_col               : {DATE_COL_DEFAULT, "date"},
     tcode_row              : {NoRow},
     autodetect_tcode_row   : {TRUE},
     require_all_tcodes     : BOOLEAN,
     overwrite              : BOOLEAN,
     write_sidecar_metadata : BOOLEAN]

\* df holds the mapping file and the sidecar file of out_json_path
InitExtract ==
    /\ pc = "start"
    /\ df = [mapping |-> <<>>, sidecar |-> <<>>]
    /\ args = None
    /\ ret = None

ExtractTcodesToJson ==
    \E csv \in ExtractCsvs :
    \E a \in ExtractArgs :
        LET r == extract_tcodes_to_json(df, csv, a)
        IN  /\ pc' = "called"
            /\ args' = [csv |-> csv, a |-> a]
            /\ df' = r.fs
            /\ ret' = [status |-> r.status,
                       before |-> df,
                       tcode_map |-> IF r.status = "ok" THEN <<r.tcode_map>> ELSE <<>>]

NextExtract == ExtractTcodesToJson

SpecExtract == InitExtract /\ [][NextExtract]_vars

\* the last call was made with overwrite=False on an existing mapping file
RefusedCall == pc = "called" /\ ~args.a.overwrite /\ ret.before.mapping # <<>>

\* the last call was allowed to write: overwrite=True or no mapping file
AllowedCall == pc = "called" /\ (args.a.overwrite \/ ret.before.mapping = <<>>)

\* the outcome of reading and validating the last call's CSV
Validation ==
    IF args.a.date_col \notin SeqToSet(args.csv.header) THEN [status |-> "ValueError"]
    ELSE LET raw == read_embedded_tcode_map(args.csv, args.a.date_col, 1)
         IN  validate_tcode_map_against_columns(args.csv.header, raw.map, args.a.date_col,
                                                args.a.require_all_tcodes)

\* C27 (as claimed): a call with overwrite=False on an existing mapping
\* fails with FileExistsError and leaves the mapping and the sidecar as
\* they were; a call allowed to write that passes validation leaves the
\* mapping file holding that call's validated map.
C27_ExistingMappingRefused ==
    /\ RefusedCall => ret.status = "FileExistsError" /\ df = ret.before
    /\ (AllowedCall /\ Validation.status = "ok") =>
           ret.status = "ok" /\ df.mapping = <<Validation.cleaned>>

\* C27 (amended): a call with overwrite=False on an existing mapping fails
\* and leaves the mapping and the sidecar as they were; it fails with
\* FileExistsError when its CSV passes validation and with the validation's
\* own error otherwise; a call allowed to write that passes validation
\* leaves the mapping file holding that call's validated map.
C27_ExistingMappingKept ==
    /\ RefusedCall =>
           /\ df = ret.before
           /\ ret.status = IF Validation.status = "ok" THEN "FileExistsError"
                            ELSE Validation.status
    /\ (AllowedCall /\ Validation.status = "ok") =>
           ret.status = "ok" /\ df.mapping = <<Validation.cleaned>>

\* C27 witness: a valid call refused on a mapping written by an earlier
\* call with another map
C27_Witness ==
    /\ RefusedCall
    /\ ret.status = "FileExistsError"
    /\ Validation.status = "ok"
    /\ df.mapping # <<Validation.cleaned>>
    /\ df.mapping = ret.before.mapping
    /\ df.sidecar # <<>>

====
